---- MODULE Spec2Model ----
(***************************************************************************)
(* cron-burgundy: the execution core (runner.js, lock.js, state.js,        *)
(* scheduler.js) as a state machine over the files under ~/.cron-burgundy.  *)
(* Every process is a short-lived invocation; processes share nothing but  *)
(* the file system.  One action is one file-system call (the code awaits    *)
(* each of them, so other processes may run in between) together with the  *)
(* synchronous code that follows it up to the next call.                    *)
(***************************************************************************)
EXTENDS Integers, Sequences, FiniteSets, TLC

(***************************************************************************)
(* Bounds of the model.                                                    *)
(***************************************************************************)
NumProcs == 2
MaxTicks == 1
MaxStarts == 2
MaxJobs == 2

(***************************************************************************)
(* Program constants (milliseconds).                                       *)
(***************************************************************************)
LOCK_TIMEOUT_MS == 10000
LOCK_STALE_MS == 30000
DEFAULT_STALE_MS == 3600000
DEFAULT_STALE_LOCK_MS == 3600000
MIN_STALE_MS == 30000

\* The clock advances in steps of the smallest program constant.
TICK_MS == LOCK_TIMEOUT_MS
\* The instant at which the model starts; files left by earlier processes
\* carry earlier timestamps.
StartNow == LOCK_STALE_MS + 2 * TICK_MS
OldTime == TICK_MS
\* state[jobId] is undefined: `lastRun ? new Date(lastRun) : null`.
NoTime == 0

Procs == 1 .. NumProcs

(***************************************************************************)
(* Process ids found in a lock record.  1..NumProcs are the processes of   *)
(* the model; the others are what process.kill(pid, 0) can answer for a    *)
(* pid that is not one of them.                                            *)
(***************************************************************************)
NoPid == 0
DeadPid == -1
ForeignPid == -2
OtherPid == -3
RecordPids == {NoPid, DeadPid, ForeignPid, OtherPid}

\* process.kill(pid, 0): "ok" (alive), "ESRCH" (no such process), "EPERM".
kill0(pid) ==
  IF pid \in Procs \/ pid = OtherPid THEN "ok"
  ELSE IF pid = DeadPid THEN "ESRCH"
  ELSE "EPERM"

Max(a, b) == IF a >= b THEN a ELSE b

(***************************************************************************)
(* Text.  A string the code takes apart (a schedule, a job id) is handled  *)
(* as the sequence of its characters; Str gives the string back.           *)
(***************************************************************************)
Digits == <<"0", "1", "2", "3", "4", "5", "6", "7", "8", "9">>
IsDigit(c) == \E d \in 1 .. 10 : Digits[d] = c
DigitValue(c) == (CHOOSE d \in 1 .. 10 : Digits[d] = c) - 1

\* `${n}` for a number without sign or fraction.
RECURSIVE NumChars(_)
NumChars(n) ==
  IF n < 10 THEN <<Digits[n + 1]>> ELSE NumChars(n \div 10) \o <<Digits[(n % 10) + 1]>>

RECURSIVE Str(_)
Str(s) ==
  IF s = <<>> THEN ""
  ELSE IF Len(s) = 1 THEN s[1]
  ELSE Str(SubSeq(s, 1, Len(s) \div 2)) \o Str(SubSeq(s, Len(s) \div 2 + 1, Len(s)))

\* Array.prototype.join.
RECURSIVE join(_, _)
join(parts, sep) ==
  IF parts = <<>> THEN <<>>
  ELSE IF Len(parts) = 1 THEN parts[1]
  ELSE parts[1] \o sep \o join(Tail(parts), sep)

\* String.prototype.includes(c) and split(sep), for a separator of one
\* character.
includes(s, c) == \E i \in 1 .. Len(s) : s[i] = c

RECURSIVE split(_, _)
split(s, sep) ==
  IF ~includes(s, sep) THEN <<s>>
  ELSE LET i == CHOOSE k \in 1 .. Len(s) : s[k] = sep /\ \A j \in 1 .. k - 1 : s[j] # sep
       IN <<SubSeq(s, 1, i - 1)>> \o split(SubSeq(s, i + 1, Len(s)), sep)

\* s.trim().split(/\s+/): the pieces between runs of spaces.
splitSpaces(s) == SelectSeq(split(s, " "), LAMBDA part : part # <<>>)

\* Number.NaN: what parseInt answers for a string without a leading digit.
NaN == -1

\* parseInt(s, 10) for a string without sign or leading space: the number
\* its leading digits spell; what follows them is ignored.
RECURSIVE digitsValue(_)
digitsValue(s) ==
  IF s = <<>> THEN 0
  ELSE 10 * digitsValue(SubSeq(s, 1, Len(s) - 1)) + DigitValue(s[Len(s)])

parseInt(s) ==
  LET n == Cardinality({i \in 1 .. Len(s) : \A j \in 1 .. i : IsDigit(s[j])}) IN
  IF n = 0 THEN NaN ELSE digitsValue(SubSeq(s, 1, n))

(***************************************************************************)
(* cron-parser.js normalizeSchedule, for schedules of five fields; the     *)
(* phrases of cronMap and of the regular expressions begin with a letter   *)
(* or hold a word, and no schedule of the model does.                      *)
(***************************************************************************)
\* /^[\*\d,\-\/]+$/ and /^[\*\d,\-\/LW#]+$/i
StrictField(part) ==
  part # <<>> /\ \A i \in 1 .. Len(part) : IsDigit(part[i]) \/ part[i] \in {"*", ",", "-", "/"}
LooseField(part) ==
  part # <<>> /\ \A i \in 1 .. Len(part) :
                   IsDigit(part[i]) \/ part[i] \in {"*", ",", "-", "/", "L", "W", "#", "l", "w"}

toLowerCase(s) ==
  [i \in 1 .. Len(s) |-> IF s[i] = "L" THEN "l" ELSE IF s[i] = "W" THEN "w" ELSE s[i]]

isHumanReadable(input) ==
  LET parts == splitSpaces(input) IN
  ~(Len(parts) = 5 /\ \A i \in 1 .. 5 : StrictField(parts[i]))

\* The result of a call that returns a cron expression or throws.
Cron(s) == [threw |-> "", cron |-> s]
CronThrew(message) == [threw |-> message, cron |-> <<>>]

parseCronExpression(input) ==
  LET normalizedInput == toLowerCase(input)
      parts == splitSpaces(normalizedInput)
  IN
  IF Len(parts) = 5 /\ \A i \in 1 .. 5 : LooseField(parts[i]) THEN Cron(normalizedInput)
  ELSE CronThrew("Unrecognized cron pattern")

normalizeSchedule(schedule) ==
  IF isHumanReadable(schedule) THEN parseCronExpression(schedule) ELSE Cron(schedule)

(***************************************************************************)
(* launchd.js: a cron expression as StartCalendarInterval records.         *)
(***************************************************************************)
\* expandCronField: null for "*", otherwise the numbers of the returned
\* array (the array holds each once; it is ascending where the numbers are
\* comparable).
Wildcard == [null |-> TRUE, values |-> {}]
Values(set) == [null |-> FALSE, values |-> set]

\* The numbers one part of the field adds to `values`.
partValues(part) ==
  IF includes(part, "-") THEN
    LET pieces == split(part, "-")
        start == parseInt(pieces[1])
        end == parseInt(pieces[2])
    IN
    \* `i <= end` is false when either number is NaN
    IF start = NaN \/ end = NaN THEN {} ELSE start .. end
  ELSE {parseInt(part)}

expandCronField(field) ==
  IF field = <<"*">> THEN Wildcard
  ELSE LET parts == split(field, ",") IN
       Values(UNION {partValues(parts[i]) : i \in 1 .. Len(parts)})

CalendarKeys == <<"Minute", "Hour", "Day", "Month", "Weekday">>

\* The nested loops over the first n fields: one record per combination,
\* without a key for a field that is null.
RECURSIVE intervals(_, _)
intervals(expanded, n) ==
  IF n = 0 THEN {<<>>}
  ELSE LET outer == intervals(expanded, n - 1) IN
       IF expanded[n].null THEN outer
       ELSE {interval @@ (CalendarKeys[n] :> v) : interval \in outer, v \in expanded[n].values}

\* What cronToCalendarInterval returns: one record (array = FALSE) or an
\* array of records; or it throws.  NoCalendar: the config has no
\* StartCalendarInterval.
NoCalendar == [threw |-> "", array |-> TRUE, records |-> {}]

cronToCalendarInterval(cronExpr) ==
  LET parts == splitSpaces(cronExpr) IN
  IF Len(parts) # 5 THEN [NoCalendar EXCEPT !.threw = "Invalid cron expression"]
  ELSE LET records == intervals([i \in 1 .. 5 |-> expandCronField(parts[i])], 5) IN
       [threw |-> "", array |-> Cardinality(records) # 1, records |-> records]
(***************************************************************************)
(* The schedules and the job ids of the model.  A cron field is written    *)
(* from its parts: "*", a number, a range a-b, each with or without a      *)
(* step /n.                                                                *)
(***************************************************************************)
Star == [kind |-> "*", a |-> 0, b |-> 0, n |-> 0]
StarStep(n) == [Star EXCEPT !.n = n]
Number(a) == [kind |-> "number", a |-> a, b |-> a, n |-> 0]
Range(a, b) == [kind |-> "range", a |-> a, b |-> b, n |-> 0]
RangeStep(a, b, n) == [kind |-> "range", a |-> a, b |-> b, n |-> n]

partText(part) ==
  (IF part.kind = "*" THEN <<"*">>
   ELSE IF part.kind = "number" THEN NumChars(part.a)
   ELSE NumChars(part.a) \o <<"-">> \o NumChars(part.b))
  \o (IF part.n = 0 THEN <<>> ELSE <<"/">> \o NumChars(part.n))

fieldText(field) == join([i \in DOMAIN field |-> partText(field[i])], <<",">>)

\* The fields of the model's cron expressions, by position: minute, hour,
\* day of month, month, day of week.
CronFields ==
  <<{<<Star>>, <<Number(0)>>, <<Number(30)>>, <<StarStep(5)>>, <<StarStep(15)>>,
     <<RangeStep(0, 30, 10)>>, <<Number(0), Number(30)>>},
    {<<Star>>, <<Number(9)>>, <<Range(6, 8)>>, <<StarStep(2)>>, <<Range(9, 10), Number(14)>>},
    {<<Star>>, <<Number(1)>>, <<Number(15)>>, <<StarStep(10)>>},
    {<<Star>>, <<Number(6)>>, <<StarStep(6)>>},
    {<<Star>>, <<Number(1)>>, <<Range(1, 5)>>, <<Number(0), Number(6)>>}>>

CronExprs ==
  {<<m, h, d, mo, wd>> : m \in CronFields[1], h \in CronFields[2], d \in CronFields[3],
                         mo \in CronFields[4], wd \in CronFields[5]}

cronText(expr) == join([i \in 1 .. 5 |-> fieldText(expr[i])], <<" ">>)

\* "0 9 * *" (four fields) and "0 0 L * *" (parseCronExpression's
\* 'last day of month').
OtherSchedules ==
  {<<"0", " ", "9", " ", "*", " ", "*">>,
   <<"0", " ", "0", " ", "L", " ", "*", " ", "*">>}

\* Job ids: those validateJobId accepts and one for each way it rejects.
LongId == [i \in 1 .. 101 |-> "a"]
ValidIds ==
  {<<"t", "i", "c", "k">>, <<"b", "e", "a", "t">>, <<"m", "y", "_", "j", "o", "b", "-", "1">>,
   <<"1", "2", "3", "j", "o", "b">>, <<"_", "x">>, SubSeq(LongId, 1, 100)}
ConfigIds ==
  ValidIds
  \cup {<<>>, LongId, <<"a", ".", "b">>, <<".", ".">>, <<"m", "y", "/", "j", "o", "b">>,
        <<"m", "y", "\\", "j", "o", "b">>, <<"m", "y", " ", "j", "o", "b">>,
        <<"m", "y", ":", "j", "o", "b">>, <<"-", "x">>, <<"a", "$", "b">>}

\* Namespaces, <<>> for none, and the names of files in LaunchAgents: the
\* plists of the valid ids in these namespaces, the wake checker's plist
\* and files that are no job's plist.
NamespaceTexts ==
  {<<>>, <<"p", "m">>, <<"a", "m">>, <<"p", "m", ".", "e", "u">>, <<"m", "y", "-", "n", "s">>,
   <<"n", "s", "_", "1">>, <<"w", "o", "r", "k">>, <<"h", "o", "m", "e">>}
JobPrefixText == <<"c", "o", "m", ".", "c", "r", "o", "n", "-", "b", "u", "r", "g", "u", "n", "d", "y", ".", "j", "o", "b", ".">>
PlistText == <<".", "p", "l", "i", "s", "t">>
FileTexts ==
  {JobPrefixText \o (IF ns = <<>> THEN <<>> ELSE ns \o <<".">>) \o id \o PlistText :
     ns \in NamespaceTexts, id \in ValidIds}
  \cup {<<"c", "o", "m", ".", "c", "r", "o", "n", "-", "b", "u", "r", "g", "u", "n", "d", "y", ".", "w", "a", "k", "e", "c", "h", "e", "c", "k", ".", "p", "l", "i", "s", "t">>,
        <<"c", "o", "m", ".", "c", "r", "o", "n", "-", "b", "u", "r", "g", "u", "n", "d", "y", ".", "j", "o", "b", ".", "p", "l", "i", "s", "t">>,
        <<"c", "o", "m", ".", "c", "r", "o", "n", "-", "b", "u", "r", "g", "u", "n", "d", "y", ".", "j", "o", "b", ".", ".", "p", "l", "i", "s", "t">>,
        <<"c", "o", "m", ".", "c", "r", "o", "n", "-", "b", "u", "r", "g", "u", "n", "d", "y", ".", "j", "o", "b", ".", "t", "i", "c", "k">>,
        <<"c", "o", "m", ".", "o", "t", "h", "e", "r", ".", "a", "p", "p", ".", "p", "l", "i", "s", "t">>,
        <<"n", "o", "t", "-", "a", "-", "p", "l", "i", "s", "t">>}

\* The strings the model takes apart, and the characters of each.
ScheduleTexts == {cronText(expr) : expr \in CronExprs} \cup OtherSchedules
Texts ==
  ScheduleTexts \cup ConfigIds \cup NamespaceTexts \cup FileTexts \cup {JobPrefixText}
Strings == {[string |-> Str(s), chars |-> s] : s \in Texts}
chars(string) == (CHOOSE s \in Strings : s.string = string).chars
(***************************************************************************)
(* registry.js validateJobId: "" when the id is accepted, otherwise the    *)
(* error it throws.                                                        *)
(***************************************************************************)
Letters ==
  {"a", "b", "c", "d", "e", "f", "g", "h", "i", "j", "k", "l", "m",
   "n", "o", "p", "q", "r", "s", "t", "u", "v", "w", "x", "y", "z"}
  \cup {"A", "B", "C", "D", "E", "F", "G", "H", "I", "J", "K", "L", "M",
        "N", "O", "P", "Q", "R", "S", "T", "U", "V", "W", "X", "Y", "Z"}
\* /^[a-zA-Z0-9_]/ and the characters of /^[a-zA-Z0-9_-]+$/
WordChar(c) == c \in Letters \/ IsDigit(c) \/ c = "_"

validateJobId(jobId) ==
  LET id == chars(jobId) IN
  IF id = <<>> THEN "must be a non-empty string"
  ELSE IF Len(id) > 100 THEN "is too long"
  ELSE IF includes(id, ".") THEN "cannot contain dots"
  ELSE IF \E c \in {"/", "\\", " ", "\t", "\n", "\r", ":", "*", "?", "\"", "<", ">", "|"} :
            includes(id, c)
    THEN "contains invalid character"
  ELSE IF ~WordChar(id[1]) THEN "must start with a letter, number, or underscore"
  ELSE IF \E i \in 1 .. Len(id) : ~(WordChar(id[i]) \/ id[i] = "-")
    THEN "contains invalid characters"
  ELSE ""
(***************************************************************************)
(* Names: registry.js qualifyJobId and the launchd.js label scheme.  Ids,  *)
(* namespaces, labels and file names are strings, built by concatenation;  *)
(* "" stands for a null namespace.                                         *)
(***************************************************************************)
NoNamespace == ""
LABEL_PREFIX == "com.cron-burgundy"
WAKE_CHECKER_LABEL == LABEL_PREFIX \o ".wakecheck"
MIN_INTERVAL_MS == 10000

\* The bare ids and the namespaces of the jobs handed to launchd.js.
LaunchdIds == {"tick", "beat"}
Namespaces == {NoNamespace, "pm", "pm.eu"}
qualifyJobId(jobId, namespace) ==
  IF namespace = NoNamespace THEN jobId ELSE namespace \o "/" \o jobId

getJobLabel(jobId, namespace) ==
  IF namespace # NoNamespace THEN LABEL_PREFIX \o ".job." \o namespace \o "." \o jobId
  ELSE LABEL_PREFIX \o ".job." \o jobId

\* The file's name inside LAUNCH_AGENTS_DIR.
getJobPlistPath(jobId, namespace) == getJobLabel(jobId, namespace) \o ".plist"

getWakeCheckerPlistPath == WAKE_CHECKER_LABEL \o ".plist"

\* String.prototype.startsWith, endsWith, slice(start, end) for end < 0 and
\* indexOf (from 1; 0 when the character is absent).
startsWith(s, prefix) == Len(s) >= Len(prefix) /\ SubSeq(s, 1, Len(prefix)) = prefix
endsWith(s, suffix) ==
  Len(s) >= Len(suffix) /\ SubSeq(s, Len(s) - Len(suffix) + 1, Len(s)) = suffix
slice(s, start, end) == SubSeq(s, start + 1, Max(Len(s) + end, 0))
indexOf(s, c) ==
  IF includes(s, c) THEN CHOOSE i \in 1 .. Len(s) : s[i] = c /\ \A j \in 1 .. i - 1 : s[j] # c
  ELSE 0

\* null for a name that does not start with the job prefix or does not end
\* in ".plist"; otherwise what lies between them is split at its first dot,
\* if it has one.
NoParse == [namespace |-> "null", jobId |-> ""]

parsePlistFilename(filename) ==
  LET jobPrefix == chars(LABEL_PREFIX \o ".job.")
      name == chars(filename)
      rest == slice(name, Len(jobPrefix), -6)
      dotIdx == indexOf(rest, ".")
  IN
  IF ~startsWith(name, jobPrefix) \/ ~endsWith(name, PlistText) THEN NoParse
  ELSE IF dotIdx = 0 THEN [namespace |-> NoNamespace, jobId |-> Str(rest)]
  ELSE [namespace |-> Str(SubSeq(rest, 1, dotIdx - 1)),
        jobId |-> Str(SubSeq(rest, dotIdx + 1, Len(rest)))]

\* LaunchAgents/<name>: absent, or a file with these bytes.
NoXml ==
  [Label |-> "", ProgramArguments |-> <<>>, StartCalendarInterval |-> NoCalendar,
   StartInterval |-> 0]
NoFile == [exists |-> FALSE, xml |-> NoXml]
File(xml) == [exists |-> TRUE, xml |-> xml]

JobPlists == {getJobPlistPath(jobId, namespace) : jobId \in LaunchdIds, namespace \in Namespaces}

\* The qualified ids launchd.js can hand to the lock and state modules:
\* those of its jobs and those it reads off the names of installed plists.
\* ("pm.eu.tick" read as the job "eu.tick" of "pm").
LaunchdQids ==
  {qualifyJobId(jobId, namespace) : jobId \in LaunchdIds, namespace \in Namespaces}
  \cup {qualifyJobId("eu." \o jobId, "pm") : jobId \in LaunchdIds}
PlistFiles == JobPlists \cup {getWakeCheckerPlistPath}
NoAgents == [f \in PlistFiles |-> NoFile]

(***************************************************************************)
(* Jobs.  interval = 0 stands for a job without `interval` (a cron job);   *)
(* cronGap is then the gap croner computes between its next two fire times.*)
(***************************************************************************)
\* Job records carry `id` and, when loaded through the registry,
\* `_qualifiedId` (qid here; "" when the property is absent).  "pm/tick" and
\* "am/tick" are the job "tick" of the namespaces "pm" and "am".
Qids == {"a", "b", "c", "tick", "pm/tick", "am/tick"} \cup LaunchdQids

JobA == [id |-> "a", qid |-> "a", interval |-> 10000, cronGap |-> 0, enabled |-> TRUE]
JobB == [id |-> "b", qid |-> "b", interval |-> 0, cronGap |-> 60000, enabled |-> TRUE]
JobC == [id |-> "c", qid |-> "", interval |-> 10000, cronGap |-> 0, enabled |-> FALSE]
JobPm == [id |-> "tick", qid |-> "pm/tick", interval |-> 10000, cronGap |-> 0,
          enabled |-> TRUE]
JobAm == [id |-> "tick", qid |-> "am/tick", interval |-> 10000, cronGap |-> 0,
          enabled |-> TRUE]
NoJob == [id |-> "", qid |-> "", interval |-> 0, cronGap |-> 0, enabled |-> FALSE]
JobPool == {JobA, JobB, JobC}

\* Variant: the runner keys everything by the bare id.
jobIdOfBare(job) == job.id

\* runner.js `const jobId = job._qualifiedId || job.id`.
jobIdOf(job) == IF job.qid # "" THEN job.qid ELSE job.id

\* The job as the runner holds it, qid being the local `jobId`.
Resolved(job) == [job EXCEPT !.qid = jobIdOf(job)]

\* scheduler.js
isEnabled(job) == job.enabled # FALSE

getIntervalMs(job) == IF job.interval # 0 THEN job.interval ELSE job.cronGap

shouldRun(job, lastRun, t) ==
  IF lastRun = NoTime THEN TRUE ELSE (t - lastRun) >= getIntervalMs(job)

\* runner.js
getStaleLockMs(job) ==
  IF job.interval # 0 THEN Max(job.interval * 3, MIN_STALE_MS) ELSE DEFAULT_STALE_MS

(***************************************************************************)
(* Files.                                                                  *)
(***************************************************************************)
\* locks/<qid>.lock: parse = FALSE is a record JSON.parse rejects; dir says
\* whether the directory the path lies in exists (locks/ itself for a bare
\* id, locks/<ns>/ for a qualified id `ns/id`).
NoLock == [exists |-> FALSE, parse |-> FALSE, pid |-> NoPid, mtime |-> 0, dir |-> TRUE]
LockRecord(pid, t) ==
  [exists |-> TRUE, parse |-> TRUE, pid |-> pid, mtime |-> t, dir |-> TRUE]
GarbledLock(t) ==
  [exists |-> TRUE, parse |-> FALSE, pid |-> NoPid, mtime |-> t, dir |-> TRUE]
\* No lock file, and no directory locks/<ns>/ either.
NoDir == [NoLock EXCEPT !.dir = FALSE]
\* fs.unlink: the file is gone (or was not there), its directory stays.
Unlinked(f) == [NoLock EXCEPT !.dir = f.dir]

\* state.lock: only its existence and mtime are ever read.
NoStateLock == [exists |-> FALSE, pid |-> NoPid, mtime |-> 0]
StateLockRecord(pid, t) == [exists |-> TRUE, pid |-> pid, mtime |-> t]

\* state.json: corrupt = TRUE is content JSON.parse rejects.  paused.kind is
\* "absent" (no _paused key), "all" (_paused === true) or "list" (an array).
NoPaused == [kind |-> "absent", jobs |-> <<>>]
AllPaused == [kind |-> "all", jobs |-> <<>>]
PausedList(s) == [kind |-> "list", jobs |-> s]
EmptyState ==
  [corrupt |-> FALSE, last |-> [q \in Qids |-> NoTime],
   next |-> [q \in Qids |-> NoTime], paused |-> NoPaused]
CorruptState == [EmptyState EXCEPT !.corrupt = TRUE]

SeqHas(s, x) == \E i \in 1 .. Len(s) : s[i] = x
SeqCount(s, x) == Cardinality({i \in 1 .. Len(s) : s[i] = x})
SeqFilterOut(s, x) == SelectSeq(s, LAMBDA y : y # x)

(***************************************************************************)
(* state.js: the updaters passed to updateState, and the unlocked reads.   *)
(***************************************************************************)
\* markRun's updater; `t` is the `new Date()` taken inside it.
markRunUpdater(state, jobId, interval, t) ==
  [state EXCEPT !.last[jobId] = t,
                !.next[jobId] = IF interval # 0 THEN t + interval ELSE @]

\* Variant: pausing a specific id replaces a global pause by a list.
pauseUpdaterOverGlobal(state, jobId) ==
  IF jobId = "all" THEN [state EXCEPT !.paused = AllPaused]
  ELSE [state EXCEPT !.paused = PausedList(<<jobId>>)]

pauseUpdater(state, jobId) ==
  IF jobId = "all" THEN [state EXCEPT !.paused = AllPaused]
  ELSE IF state.paused.kind # "all"
    THEN LET paused == IF state.paused.kind = "list" THEN state.paused.jobs ELSE <<>>
         IN [state EXCEPT !.paused =
               PausedList(IF SeqHas(paused, jobId) THEN paused ELSE Append(paused, jobId))]
    ELSE state

\* Variant: resume of a specific id leaves the paused list as it is.
resumeUpdaterKeeps(state, jobId) ==
  IF jobId = "all" THEN [state EXCEPT !.paused = NoPaused] ELSE state

\* Variant: resume keeps the filtered list even when it is empty.
resumeUpdaterKeepsEmpty(state, jobId) ==
  IF jobId = "all" THEN [state EXCEPT !.paused = NoPaused]
  ELSE IF state.paused.kind = "list"
    THEN [state EXCEPT !.paused = PausedList(SeqFilterOut(state.paused.jobs, jobId))]
    ELSE state
resumeUpdater(state, jobId) ==
  IF jobId = "all" THEN [state EXCEPT !.paused = NoPaused]
  ELSE IF state.paused.kind = "list"
    THEN LET rest == SeqFilterOut(state.paused.jobs, jobId)
         IN [state EXCEPT !.paused = IF Len(rest) = 0 THEN NoPaused ELSE PausedList(rest)]
    ELSE state

isPaused(state, jobId) ==
  IF state.paused.kind = "all" THEN TRUE
  ELSE IF state.paused.kind = "list" /\ jobId # "" THEN SeqHas(state.paused.jobs, jobId)
  ELSE FALSE

getLastRun(state, jobId) == state.last[jobId]

getPauseStatus(state) ==
  IF state.paused.kind = "all" THEN [all |-> TRUE, jobs |-> <<>>]
  ELSE IF state.paused.kind = "list" THEN [all |-> FALSE, jobs |-> state.paused.jobs]
  ELSE [all |-> FALSE, jobs |-> <<>>]

\* An update in flight: which updater, on which id, with which interval.
NoUpd == [op |-> "none", id |-> "", interval |-> 0]
MarkRunUpd(jobId, interval) == [op |-> "markRun", id |-> jobId, interval |-> interval]
PauseUpd(jobId) == [op |-> "pause", id |-> jobId, interval |-> 0]
ResumeUpd(jobId) == [op |-> "resume", id |-> jobId, interval |-> 0]

updater(u, state, t) ==
  IF u.op = "markRun" THEN markRunUpdater(state, u.id, u.interval, t)
  ELSE IF u.op = "pause" THEN pauseUpdater(state, u.id)
  ELSE IF u.op = "resume" THEN resumeUpdater(state, u.id)
  ELSE state

(***************************************************************************)
(* registry.json: absent, or a document.  `files` holds the entries        *)
(* {path, namespace}; legacy marks the old format, an array of paths,      *)
(* whose entries carry no namespace.                                       *)
(***************************************************************************)
NoRegistry == [exists |-> FALSE, parse |-> TRUE, legacy |-> FALSE, files |-> <<>>]
Registry(files) == [exists |-> TRUE, parse |-> TRUE, legacy |-> FALSE, files |-> files]
LegacyRegistry(paths) ==
  [exists |-> TRUE, parse |-> TRUE, legacy |-> TRUE,
   files |-> [i \in DOMAIN paths |-> [path |-> paths[i]]]]
GarbledRegistry == [NoRegistry EXCEPT !.exists = TRUE, !.parse = FALSE]

(***************************************************************************)
(* The state of the system.                                                *)
(***************************************************************************)
VARIABLES
  now,        \* Date.now()
  lockFile,   \* locks/<qid>.lock, per qualified id
  stateLock,  \* state.lock
  stateFile,  \* state.json
  proc,       \* per process: program counter, locals, and history of the invocation
  agents,     \* ~/Library/LaunchAgents/<name>, per file name
  registry,   \* registry.json
  serial,     \* history: the committed updaters applied one after the other
  started     \* history: the number of invocations started so far

vars == <<now, lockFile, stateLock, stateFile, agents, registry, proc, serial, started>>

NoResults ==
  [ran |-> <<>>, skipped |-> <<>>, disabled |-> <<>>, paused |-> <<>>, failed |-> <<>>]

\* A launchd.js call: which function, on which jobs or id, in which namespace.
NoCall ==
  [fn |-> "none", jobs |-> <<>>, jobId |-> "", namespace |-> NoNamespace, file |-> ""]
\* A job as launchd.js reads it: schedule = "" and interval = 0 stand for
\* absent properties.
NoLaunchdJob == [id |-> "", schedule |-> "", interval |-> 0, enabled |-> FALSE]
\* One installJob or uninstallJob call of a sync, or its directory listing.
NoItem == [kind |-> "none", job |-> NoLaunchdJob, jobId |-> "", namespace |-> NoNamespace]
\* The locals and the history of a launchd.js call.
NoLd ==
  [call |-> NoCall, queue |-> <<>>, item |-> NoItem, xml |-> NoXml,
   installed |-> <<>>, unchanged |-> <<>>, orphaned |-> {},
   unloads |-> 0, writes |-> 0, loads |-> 0, unlinks |-> 0, before |-> <<>>]

\* A process before its first invocation.
IdleProc ==
  [pc |-> "idle", entry |-> "none", job |-> NoJob, sched |-> FALSE, ld |-> NoLd,
   input |-> <<>>, jobs |-> <<>>, idx |-> 0, res |-> NoResults, reg |-> <<>>,
   lockData |-> NoPid, staleLockMs |-> 0, lastRun |-> NoTime, active |-> {},
   startTime |-> 0, upd |-> NoUpd, updAt |-> NoTime, buf |-> EmptyState, err |-> "",
   \* what the file system refuses this process from now on (see Fault)
   fault |-> "none",
   \* history of the job being processed
   t0 |-> 0, outcome |-> "none", execs |-> 0, op |-> "none",
   marks |-> 0, markAt |-> NoTime, held |-> FALSE, acquired |-> FALSE,
   released |-> 0, refusedBy |-> NoLock, found |-> NoLock, statAt |-> 0,
   before |-> EmptyState,
   \* history of the slot: the pause or resume call that completed last in it
   prev |-> NoUpd]

\* The per-job history, cleared when a job's processing begins.
FreshJob(r, t) ==
  [r EXCEPT !.t0 = t, !.outcome = "none", !.execs = 0, !.op = "none",
            !.marks = 0, !.markAt = NoTime, !.held = FALSE, !.acquired = FALSE,
            !.released = 0, !.refusedBy = NoLock, !.found = NoLock, !.statAt = 0,
            !.before = stateFile, !.err = "",
            !.lockData = NoPid, !.lastRun = NoTime, !.upd = NoUpd,
            !.updAt = NoTime, !.buf = EmptyState, !.startTime = 0, !.staleLockMs = 0]

Alive(p) == proc[p].pc # "idle"

\* process.kill(pid, 0) at this instant.
probe(pid) ==
  IF pid \in Procs THEN (IF Alive(pid) THEN "ok" ELSE "ESRCH") ELSE kill0(pid)

\* The entry point has returned or thrown and the process has exited: its
\* slot is free for the next invocation.
Exited(r) ==
  [IdleProc EXCEPT !.prev = IF r.entry \in {"pause", "resume"} /\ r.err = ""
                             THEN r.upd
                           ELSE IF r.ld.call # NoCall /\ r.err = "" THEN r.ld.call
                           ELSE NoUpd]

\* Variant: the job's id is not recorded in any list.
PushNone(r, list) == r

Push(r, list) == [r EXCEPT !.res[list] = Append(@, r.job.qid)]

\* The job's processing is over with this outcome.
EndJob(r, outcome) == [r EXCEPT !.pc = "jobEnd", !.outcome = outcome]

(***************************************************************************)
(* runner.js: where each entry point goes on after a call it makes.        *)
(***************************************************************************)
\* The error job.run rejects with.
JobError == "job.run"

\* logRunner, logJob and logJobSeparator have no try/catch: they reject when
\* fs.appendFile does.
logFails(r) == r.fault = "appendFile" /\ r.entry \in {"runJobNow", "runAllDue", "checkMissed"}

\* A log call rejects.  Inside a try block the catch block's own logRunner
\* rejects as well, the finally block (runJobNow, checkMissed) releases the
\* lock, and the log error leaves the entry point; runAllDue's catch around
\* runIfDue logs too, so the error leaves its loop.
logThrew(r) ==
  [r EXCEPT !.err = "EACCES",
            !.outcome = IF r.entry = "runJobNow" THEN "threw" ELSE "aborted",
            !.pc = IF r.held THEN "releaseLock" ELSE "jobEnd"]

\* After `await isPaused(jobId)`: err is "corrupt" when getState threw.
afterIsPaused(r, err, paused) ==
  IF logFails(r) /\ (IF r.entry = "runAllDue" THEN err # "" ELSE err = "" /\ paused)
    THEN logThrew(r)
  ELSE IF r.entry = "runJobNow" THEN
    IF err # "" THEN EndJob([r EXCEPT !.err = err], "threw")
    ELSE IF paused THEN EndJob(r, "paused")
    ELSE [r EXCEPT !.pc = "isLocked_read", !.staleLockMs = getStaleLockMs(r.job)]
  ELSE IF r.entry = "runAllDue" THEN
    IF err # "" THEN EndJob(Push([r EXCEPT !.err = err], "failed"), "failed")
    ELSE IF paused THEN EndJob(Push(r, "paused"), "paused")
    ELSE [r EXCEPT !.pc = "getLastRun"]
  ELSE \* checkMissed: the call is outside the try, the error leaves the loop
    IF err # "" THEN EndJob([r EXCEPT !.err = err], "aborted")
    ELSE IF paused THEN EndJob(Push(r, "skipped"), "paused")
    ELSE [r EXCEPT !.pc = "isLocked_read", !.staleLockMs = getStaleLockMs(r.job)]

\* Variant: a refused caller goes through the finally block's releaseLock.
refusedLockReleases(r, file) ==
  [r EXCEPT !.refusedBy = file, !.outcome = "locked", !.pc = "releaseLock"]

\* Variant: a refused job is put in no list.
refusedLockUnlisted(r, file) == EndJob([r EXCEPT !.refusedBy = file], "locked")

\* After `await acquireLock(jobId, { staleLockMs })`.
refusedLock(r, file) ==
  IF logFails(r) THEN logThrew([r EXCEPT !.refusedBy = file])
  ELSE IF r.entry = "checkMissed"
    THEN EndJob(Push([r EXCEPT !.refusedBy = file], "skipped"), "locked")
  ELSE EndJob([r EXCEPT !.refusedBy = file], "locked")

\* acquireLock threw: the call is outside every try block of its callers.
acquireLockThrew(r, err) ==
  EndJob([r EXCEPT !.err = err],
         IF r.entry = "checkMissed" THEN "aborted" ELSE "threw")

grantedLock(r) ==
  LET h == [r EXCEPT !.held = TRUE, !.acquired = TRUE, !.active = @ \cup {r.job.qid}] IN
  IF r.entry = "acquireLock" THEN EndJob(h, "acquired")
  ELSE IF r.entry = "runJobNow" /\ logFails(r) THEN logThrew(h)
  ELSE IF r.entry = "withLock" THEN [h EXCEPT !.pc = "run", !.execs = @ + 1]
  ELSE [h EXCEPT !.pc = "getLastRun"]

\* job.run is entered.
enterRun(r) == [r EXCEPT !.pc = "run", !.execs = @ + 1]

\* After `await getLastRun(jobId)`, followed by shouldRun where the code calls it.
afterGetLastRun(r, err, lastRun, t) ==
  IF logFails(r) /\ (err # "" \/ (r.entry # "runJobNow" /\ shouldRun(r.job, lastRun, t)))
    THEN logThrew(r)
  ELSE IF r.entry = "runJobNow" THEN
    IF err # "" THEN [r EXCEPT !.err = err, !.outcome = "threw", !.pc = "releaseLock"]
    ELSE enterRun([r EXCEPT !.lastRun = lastRun])
  ELSE IF r.entry = "runAllDue" THEN
    IF err # "" THEN EndJob(Push([r EXCEPT !.err = err], "failed"), "failed")
    ELSE IF ~shouldRun(r.job, lastRun, t) THEN EndJob(Push(r, "skipped"), "skipped")
    ELSE enterRun([r EXCEPT !.lastRun = lastRun])
  ELSE
    IF err # "" THEN [Push([r EXCEPT !.err = err], "skipped")
                        EXCEPT !.outcome = "failed", !.pc = "releaseLock"]
    ELSE IF ~shouldRun(r.job, lastRun, t)
      THEN [Push(r, "skipped") EXCEPT !.outcome = "skipped", !.pc = "releaseLock"]
    ELSE enterRun([r EXCEPT !.lastRun = lastRun])

\* Variant: runJobNow and checkMissed skip the finally block when markRun throws.
afterUpdateStateKeepsLock(r, err) ==
  IF err # "" /\ r.entry \in {"runJobNow", "checkMissed"}
    THEN EndJob([r EXCEPT !.err = err], IF r.entry = "runJobNow" THEN "threw" ELSE "failed")
  ELSE IF r.entry = "runJobNow" THEN [r EXCEPT !.outcome = "ran", !.pc = "releaseLock"]
  ELSE IF r.entry = "runAllDue" THEN
    IF err = "" THEN EndJob(Push(r, "ran"), "ran")
    ELSE EndJob(Push([r EXCEPT !.err = err], "failed"), "failed")
  ELSE IF r.entry = "checkMissed" THEN [Push(r, "ran") EXCEPT !.outcome = "ran", !.pc = "releaseLock"]
  ELSE EndJob([r EXCEPT !.err = err], IF err = "" THEN "ok" ELSE "threw")
\* After updateState (markRun, pause, resume): err is "" when it returned.
afterUpdateState(r, err) ==
  IF logFails(r) THEN logThrew(r)
  ELSE IF r.entry = "runJobNow" THEN
    [r EXCEPT !.err = err, !.outcome = IF err = "" THEN "ran" ELSE "threw",
              !.pc = "releaseLock"]
  ELSE IF r.entry = "runAllDue" THEN
    IF err = "" THEN EndJob(Push(r, "ran"), "ran")
    ELSE EndJob(Push([r EXCEPT !.err = err], "failed"), "failed")
  ELSE IF r.entry = "checkMissed" THEN
    IF err = "" THEN [Push(r, "ran") EXCEPT !.outcome = "ran", !.pc = "releaseLock"]
    ELSE [Push([r EXCEPT !.err = err], "skipped")
            EXCEPT !.outcome = "failed", !.pc = "releaseLock"]
  ELSE EndJob([r EXCEPT !.err = err], IF err = "" THEN "ok" ELSE "threw")

\* Variant: every caller passes the job's interval to markRun.
markOptionsAlways(r) == r.job.interval

\* The options runJobNow, runIfDue and checkMissed pass to markRun.
markOptions(r) ==
  IF r.entry = "runJobNow" /\ r.sched /\ r.job.interval # 0 THEN r.job.interval ELSE 0

\* Variant: job.run returned and markRun is left out.
afterRunOkNoMark(r) == afterUpdateState([r EXCEPT !.op = "ok"], "")

\* job.run returned: markRun is called.  withLock's fn returned: the
\* finally block, then `return true`.
afterRunOk(r) ==
  IF r.entry = "withLock" THEN [r EXCEPT !.op = "ok", !.outcome = "ran", !.pc = "releaseLock"]
  ELSE
  [r EXCEPT !.op = "ok", !.upd = MarkRunUpd(r.job.qid, markOptions(r)),
            !.pc = "acquireStateLock"]

\* Variant: a failed run is recorded like a successful one.
afterRunThrewMarks(r) == [afterRunOk(r) EXCEPT !.op = "threw"]

\* Variant: withLock lets fn's error through without its finally block.
afterRunThrewNoRelease(r) == EndJob([r EXCEPT !.op = "threw"], "threw")

\* Variant: the loops of runAllDue and checkMissed let job.run's error out.
afterRunThrewStops(r) ==
  [r EXCEPT !.op = "threw", !.err = JobError, !.outcome = "aborted",
            !.pc = IF r.held THEN "releaseLock" ELSE "jobEnd"]
\* job.run threw: the catch block.  withLock's fn threw: the finally block,
\* then the error propagates.
afterRunThrew(r) ==
  LET e == [r EXCEPT !.op = "threw", !.err = JobError] IN
  IF logFails(r) THEN logThrew(e)
  ELSE IF r.entry \in {"runJobNow", "withLock"} THEN
    [e EXCEPT !.outcome = "threw", !.pc = "releaseLock"]
  ELSE IF r.entry = "runAllDue" THEN EndJob(Push(e, "failed"), "failed")
  ELSE [Push(e, "skipped") EXCEPT !.outcome = "failed", !.pc = "releaseLock"]

\* Variant: runJobNow consults the pause flag whatever `scheduled` is.
beginJobAlwaysGated(r) ==
  IF r.entry = "runAllDue" /\ ~isEnabled(r.job) THEN EndJob(Push(r, "disabled"), "disabled")
  ELSE [r EXCEPT !.pc = "isPaused"]

\* Variant: runIfDue consults the pause flag before the enabled flag.
beginJobPausedFirst(r) ==
  IF r.entry = "runJobNow" /\ ~r.sched
    THEN [r EXCEPT !.pc = "isLocked_read", !.staleLockMs = getStaleLockMs(r.job)]
  ELSE [r EXCEPT !.pc = "isPaused"]
\* The first step of a job's processing in each entry point.
beginJob(r) ==
  IF r.entry = "runJobNow" THEN
    IF r.sched THEN [r EXCEPT !.pc = "isPaused"]
    ELSE [r EXCEPT !.pc = "isLocked_read", !.staleLockMs = getStaleLockMs(r.job)]
  ELSE IF r.entry = "runAllDue" THEN
    IF ~isEnabled(r.job) THEN EndJob(Push(r, "disabled"), "disabled")
    ELSE [r EXCEPT !.pc = "isPaused"]
  ELSE [r EXCEPT !.pc = "isPaused"]

Set(p, r) == proc' = [proc EXCEPT ![p] = r]

(***************************************************************************)
(* lock.js                                                                 *)
(***************************************************************************)
\* Variant: a lock exactly staleLockMs old already counts as stale.
isLockedVerdictInclusive(pid, age, staleLockMs, probed) ==
  IF age >= staleLockMs THEN "unlink"
  ELSE IF pid # NoPid /\ probed = "ESRCH" THEN "unlink"
  ELSE "locked"

\* isLocked once readFile, JSON.parse and stat have succeeded: "unlink" (the
\* lock is stale: remove it and answer false) or "locked" (answer true).
isLockedVerdict(pid, age, staleLockMs, probed) ==
  IF age > staleLockMs THEN "unlink"
  ELSE IF pid # NoPid /\ probed = "ok" THEN "locked"
  ELSE IF pid # NoPid /\ probed = "ESRCH" THEN "unlink"
  ELSE "locked"

\* isLocked: fs.readFile and JSON.parse.
IsLockedRead(p) ==
  LET r == proc[p]  f == lockFile[r.job.qid] IN
  /\ r.pc = "isLocked_read"
  /\ Set(p, IF ~f.exists THEN [r EXCEPT !.found = f, !.pc = "acquireLock_write"]
            ELSE IF ~f.parse THEN [r EXCEPT !.found = f, !.pc = "isLocked_unlink"]
            ELSE [r EXCEPT !.found = f, !.lockData = f.pid, !.pc = "isLocked_stat"])
  /\ UNCHANGED <<registry, agents, now, lockFile, stateLock, stateFile, serial, started>>

\* isLocked: fs.stat, the age test and process.kill(pid, 0).
IsLockedStat(p) ==
  LET r == proc[p]  f == lockFile[r.job.qid] IN
  /\ r.pc = "isLocked_stat"
  /\ Set(p, IF ~f.exists THEN [r EXCEPT !.pc = "acquireLock_write"]
            ELSE IF isLockedVerdict(r.lockData, now - f.mtime, r.staleLockMs,
                                    probe(r.lockData)) = "unlink"
              THEN [r EXCEPT !.statAt = now, !.pc = "isLocked_unlink"]
            ELSE refusedLock([r EXCEPT !.statAt = now], f))
  /\ UNCHANGED <<registry, agents, now, lockFile, stateLock, stateFile, serial, started>>

\* isLocked: fs.unlink(lockPath).catch(() => {}), then `return false`.
IsLockedUnlink(p) ==
  LET r == proc[p] IN
  /\ r.pc = "isLocked_unlink"
  /\ lockFile' = [lockFile EXCEPT ![r.job.qid] = Unlinked(@)]
  /\ Set(p, [r EXCEPT !.pc = "acquireLock_write"])
  /\ UNCHANGED <<registry, agents, now, stateLock, stateFile, serial, started>>

\* acquireLock: fs.writeFile(lockPath, ..., { flag: 'wx' }).
AcquireLockWrite(p) ==
  LET r == proc[p]  f == lockFile[r.job.qid] IN
  /\ r.pc = "acquireLock_write"
  /\ IF f.exists
       THEN /\ Set(p, refusedLock(r, f))
            /\ UNCHANGED lockFile
       ELSE IF ~f.dir
       THEN /\ Set(p, acquireLockThrew(r, "ENOENT"))
            /\ UNCHANGED lockFile
       ELSE /\ lockFile' = [lockFile EXCEPT ![r.job.qid] = LockRecord(p, now)]
            /\ Set(p, grantedLock(r))
  /\ UNCHANGED <<registry, agents, now, stateLock, stateFile, serial, started>>

\* releaseLock: activeLocks.delete and fs.unlink, ENOENT ignored.
ReleaseLock(p) ==
  LET r == proc[p] IN
  /\ r.pc = "releaseLock"
  /\ lockFile' = [lockFile EXCEPT ![r.job.qid] = Unlinked(@)]
  /\ Set(p, [r EXCEPT !.pc = "jobEnd", !.active = @ \ {r.job.qid},
                      !.held = FALSE, !.released = @ + 1])
  /\ UNCHANGED <<registry, agents, now, stateLock, stateFile, serial, started>>

(***************************************************************************)
(* state.js                                                                *)
(***************************************************************************)
\* isPaused: getState (fs.readFile, JSON.parse) and the test on _paused.
IsPaused(p) ==
  LET r == proc[p] IN
  /\ r.pc = "isPaused"
  /\ Set(p, IF stateFile.corrupt THEN afterIsPaused(r, "corrupt", FALSE)
            ELSE afterIsPaused(r, "", isPaused(stateFile, r.job.qid)))
  /\ UNCHANGED <<registry, agents, now, lockFile, stateLock, stateFile, serial, started>>

\* getLastRun: getState and state[jobId].
GetLastRun(p) ==
  LET r == proc[p] IN
  /\ r.pc = "getLastRun"
  /\ Set(p, IF stateFile.corrupt THEN afterGetLastRun(r, "corrupt", NoTime, now)
            ELSE afterGetLastRun(r, "", getLastRun(stateFile, r.job.qid), now))
  /\ UNCHANGED <<registry, agents, now, lockFile, stateLock, stateFile, serial, started>>

\* The stale test of acquireStateLock on the lock file's age.
stateLockStale(age) == age > LOCK_STALE_MS

\* Variant: a stale state.lock is left where it is.
aslTurnKeepsStale(r) ==
  IF ~(now - r.startTime < LOCK_TIMEOUT_MS) THEN afterUpdateState(r, "timeout")
  ELSE [r EXCEPT !.pc = "asl_write"]
\* Variant: the loop of acquireStateLock has no timeout.
aslTurnForever(r) ==
  IF stateLock.exists /\ stateLockStale(now - stateLock.mtime)
    THEN [r EXCEPT !.pc = "asl_unlink"]
  ELSE [r EXCEPT !.pc = "asl_write"]
\* acquireStateLock, one turn of the loop: the loop condition, fs.stat and
\* the stale test.
aslTurn(r) ==
  IF ~(now - r.startTime < LOCK_TIMEOUT_MS) THEN afterUpdateState(r, "timeout")
  ELSE IF stateLock.exists /\ stateLockStale(now - stateLock.mtime)
    THEN [r EXCEPT !.pc = "asl_unlink"]
  ELSE [r EXCEPT !.pc = "asl_write"]

\* acquireStateLock: after ensureStateDir, `startTime = Date.now()` and the
\* first turn of the loop.
AcquireStateLock(p) ==
  LET r == proc[p] IN
  /\ r.pc = "acquireStateLock"
  /\ Set(p, aslTurn([r EXCEPT !.startTime = now]))
  /\ UNCHANGED <<registry, agents, now, lockFile, stateLock, stateFile, serial, started>>

\* acquireStateLock: a later turn of the loop, after the 50 ms sleep.
AslStat(p) ==
  LET r == proc[p] IN
  /\ r.pc = "asl_stat"
  /\ Set(p, aslTurn(r))
  /\ UNCHANGED <<registry, agents, now, lockFile, stateLock, stateFile, serial, started>>

\* acquireStateLock: fs.unlink(STATE_LOCK_FILE).catch(() => {}).
AslUnlink(p) ==
  LET r == proc[p] IN
  /\ r.pc = "asl_unlink"
  /\ stateLock' = NoStateLock
  /\ Set(p, [r EXCEPT !.pc = "asl_write"])
  /\ UNCHANGED <<registry, agents, now, lockFile, stateFile, serial, started>>

\* acquireStateLock: fs.writeFile(STATE_LOCK_FILE, ..., { flag: 'wx' }); on
\* EEXIST sleep 50 ms and go round the loop.
AslWrite(p) ==
  LET r == proc[p] IN
  /\ r.pc = "asl_write"
  /\ IF stateLock.exists
       THEN /\ Set(p, [r EXCEPT !.pc = "asl_stat"])
            /\ UNCHANGED stateLock
       ELSE /\ stateLock' = StateLockRecord(p, now)
            /\ Set(p, [r EXCEPT !.pc = "us_getState"])
  /\ UNCHANGED <<registry, agents, now, lockFile, stateFile, serial, started>>

\* updateState: getState under the lock, then the updater.
UsGetState(p) ==
  LET r == proc[p] IN
  /\ r.pc = "us_getState"
  /\ Set(p, IF stateFile.corrupt
              THEN [r EXCEPT !.err = "corrupt", !.pc = "releaseStateLock"]
            ELSE [r EXCEPT !.buf = updater(r.upd, stateFile, now), !.updAt = now,
                           !.pc = "atomicWriteFile_write"])
  /\ UNCHANGED <<registry, agents, now, lockFile, stateLock, stateFile, serial, started>>

\* What fs.writeFile(tempFile, data) leaves in state.json: the temp file is
\* another file, so state.json keeps its content.
tempWrite(file, data) == file

\* atomicWriteFile: fs.writeFile(tempFile, data); when it rejects, the catch
\* block unlinks the temp file and throws the error again.
AtomicWriteFileWrite(p) ==
  LET r == proc[p] IN
  /\ r.pc = "atomicWriteFile_write"
  /\ stateFile' = tempWrite(stateFile, r.buf)
  /\ Set(p, IF r.fault = "writeFile"
              THEN [r EXCEPT !.err = "ENOSPC", !.buf = EmptyState, !.pc = "releaseStateLock"]
            ELSE [r EXCEPT !.pc = "atomicWriteFile_rename"])
  /\ UNCHANGED <<registry, agents, now, lockFile, stateLock, serial, started>>

\* atomicWriteFile: fs.rename(tempFile, filePath); when it rejects, the catch
\* block unlinks the temp file and throws the error again.
AtomicWriteFileRename(p) ==
  LET r == proc[p] IN
  /\ r.pc = "atomicWriteFile_rename"
  /\ IF r.fault = "rename"
       THEN /\ UNCHANGED <<stateFile, serial>>
            /\ Set(p, [r EXCEPT !.err = "EPERM", !.buf = EmptyState,
                                !.pc = "releaseStateLock"])
       ELSE /\ stateFile' = r.buf
            /\ serial' = updater(r.upd, serial, r.updAt)
            /\ Set(p, [r EXCEPT !.pc = "releaseStateLock", !.buf = EmptyState,
                                !.marks = IF r.upd.op = "markRun" THEN @ + 1 ELSE @,
                                !.markAt = IF r.upd.op = "markRun" THEN r.updAt ELSE @])
  /\ UNCHANGED <<registry, agents, now, lockFile, stateLock, started>>

\* releaseStateLock in updateState's finally: fs.unlink(...).catch(() => {}).
ReleaseStateLock(p) ==
  LET r == proc[p] IN
  /\ r.pc = "releaseStateLock"
  /\ stateLock' = NoStateLock
  /\ Set(p, afterUpdateState(r, r.err))
  /\ UNCHANGED <<registry, agents, now, lockFile, stateFile, serial, started>>

(***************************************************************************)
(* runner.js: job.run, and the end of a job's processing.                  *)
(***************************************************************************)
\* job.run resolves.
JobRunReturns(p) ==
  /\ proc[p].pc = "run"
  /\ Set(p, afterRunOk(proc[p]))
  /\ UNCHANGED <<registry, agents, now, lockFile, stateLock, stateFile, serial, started>>

\* job.run rejects.
JobRunThrows(p) ==
  /\ proc[p].pc = "run"
  /\ Set(p, afterRunThrew(proc[p]))
  /\ UNCHANGED <<registry, agents, now, lockFile, stateLock, stateFile, serial, started>>

\* Variant: no exit hook is registered.
onAnyExitNone(active) == lockFile
\* lock.js, the onAnyExit hook: unlinkSync for every id in activeLocks.
onAnyExit(active) ==
  [q \in Qids |-> IF q \in active THEN Unlinked(lockFile[q]) ELSE lockFile[q]]

\* The process is gone: process.kill on the pid it wrote into a lock file
\* that outlives it reports ESRCH from now on.
Retire(p, files) ==
  [q \in Qids |-> IF files[q].exists /\ files[q].pid = p
                    THEN [files[q] EXCEPT !.pid = DeadPid] ELSE files[q]]

\* runJobNow returns or throws; the loops of runAllDue and checkMissed take
\* the next job or return.  A process that returns exits.
Finish(p) ==
  LET r == proc[p] IN
  /\ r.pc = "jobEnd"
  /\ IF r.entry \in {"runAllDue", "checkMissed"} /\ r.outcome # "aborted"
          /\ r.idx < Len(r.jobs)
       THEN /\ Set(p, beginJob(FreshJob([r EXCEPT !.idx = @ + 1,
                                                  !.job = Resolved(r.jobs[r.idx + 1])], now)))
            /\ UNCHANGED lockFile
       ELSE /\ Set(p, Exited(r))
            /\ lockFile' = Retire(p, onAnyExit(r.active))
  /\ UNCHANGED <<registry, agents, now, stateLock, stateFile, serial, started>>

\* What a terminated process leaves in the slot's history: the signal and
\* the id whose lock it held ("" when it held none).
Killed(r) ==
  [NoUpd EXCEPT !.op = "SIGTERM",
                !.id = IF r.active = {} THEN "" ELSE CHOOSE q \in r.active : TRUE]

\* The process receives a signal that @davidwells/graceful-exit handles
\* (SIGINT, SIGTERM, ...): the onAnyExit hook runs and the process ends,
\* wherever it is.  state.lock has no exit hook.
Signal(p) ==
  LET r == proc[p] IN
  /\ r.pc # "idle"
  /\ lockFile' = Retire(p, onAnyExit(r.active))
  /\ Set(p, [Exited(r) EXCEPT !.prev = Killed(r)])
  /\ UNCHANGED <<registry, agents, now, stateLock, stateFile, serial, started>>
(***************************************************************************)
(* Processes: the OS scheduler or the user starts one per invocation.      *)
(***************************************************************************)
\* Process slots are interchangeable: a new process takes the first free one.
CanStart(p) ==
  /\ proc[p].pc = "idle"
  /\ started < MaxStarts
  /\ \A q \in Procs : q < p => proc[q].pc # "idle"

NewProc(p, entry) ==
  FreshJob([IdleProc EXCEPT !.entry = entry, !.prev = proc[p].prev], now)

\* bin/cli.js `run <jobId> [--scheduled]`: runJobNow(job, { scheduled }).
StartRunJobNow(p, job, scheduled) ==
  /\ CanStart(p)
  /\ started' = started + 1
  /\ Set(p, beginJob([NewProc(p, "runJobNow") EXCEPT !.job = Resolved(job), !.sched = scheduled]))
  /\ UNCHANGED <<registry, agents, now, lockFile, stateLock, stateFile, serial>>

\* runAllDue(jobs): the loop starts with the first job.
StartRunAllDue(p, jobs) ==
  /\ CanStart(p)
  /\ started' = started + 1
  /\ Set(p, IF Len(jobs) = 0 THEN Exited(NewProc(p, "runAllDue"))
            ELSE beginJob([NewProc(p, "runAllDue")
                             EXCEPT !.jobs = jobs, !.idx = 1, !.job = Resolved(jobs[1])]))
  /\ UNCHANGED <<registry, agents, now, lockFile, stateLock, stateFile, serial>>

\* checkMissed(jobs): `jobs.filter(j => isEnabled(j))`, then the loop.
StartCheckMissed(p, jobs) ==
  LET enabledJobs == SelectSeq(jobs, isEnabled) IN
  /\ CanStart(p)
  /\ started' = started + 1
  /\ Set(p, IF Len(enabledJobs) = 0 THEN Exited(NewProc(p, "checkMissed"))
            ELSE beginJob([NewProc(p, "checkMissed")
                             EXCEPT !.input = jobs, !.jobs = enabledJobs, !.idx = 1,
                                    !.job = Resolved(enabledJobs[1])]))
  /\ UNCHANGED <<registry, agents, now, lockFile, stateLock, stateFile, serial>>

\* markRun, pause or resume called on its own (bin/cli.js pause / resume).
StartUpdate(p, u) ==
  /\ CanStart(p)
  /\ started' = started + 1
  /\ Set(p, [NewProc(p, u.op) EXCEPT !.upd = u, !.pc = "acquireStateLock"])
  /\ UNCHANGED <<registry, agents, now, lockFile, stateLock, stateFile, serial>>

\* acquireLock(jobId, { staleLockMs }) called on its own, as withLock and the
\* lock tests do; staleLockMs = 0 stands for an absent option.
StartAcquireLock(p, jobId, staleLockMs) ==
  /\ CanStart(p)
  /\ started' = started + 1
  /\ Set(p, [NewProc(p, "acquireLock")
               EXCEPT !.job = [NoJob EXCEPT !.qid = jobId], !.pc = "isLocked_read",
                      !.staleLockMs = IF staleLockMs = 0 THEN DEFAULT_STALE_LOCK_MS
                                      ELSE staleLockMs])
  /\ UNCHANGED <<registry, agents, now, lockFile, stateLock, stateFile, serial>>

\* withLock(jobId, fn, { staleLockMs }); staleLockMs = 0 stands for an absent
\* option.
StartWithLock(p, jobId, staleLockMs) ==
  /\ CanStart(p)
  /\ started' = started + 1
  /\ Set(p, [NewProc(p, "withLock")
               EXCEPT !.job = [NoJob EXCEPT !.qid = jobId], !.pc = "isLocked_read",
                      !.staleLockMs = IF staleLockMs = 0 THEN DEFAULT_STALE_LOCK_MS
                                      ELSE staleLockMs])
  /\ UNCHANGED <<registry, agents, now, lockFile, stateLock, stateFile, serial>>

\* Time passes.
Tick ==
  /\ now < StartNow + MaxTicks * TICK_MS
  /\ now' = now + TICK_MS
  /\ UNCHANGED <<registry, agents, lockFile, stateLock, stateFile, proc, serial, started>>

\* The file system begins to refuse one kind of call of this process: the
\* temp file's fs.writeFile (disk full), the fs.rename onto state.json, or
\* the fs.appendFile of logger.js.  The call rejects when it is next made.
Fault(p, kind) ==
  /\ proc[p].pc # "idle"
  /\ proc[p].fault = "none"
  /\ Set(p, [proc[p] EXCEPT !.fault = kind])
  /\ UNCHANGED <<registry, agents, now, lockFile, stateLock, stateFile, serial, started>>

\* The steps of a running invocation.
LockStep(p) ==
  \/ IsLockedRead(p)
  \/ IsLockedStat(p)
  \/ IsLockedUnlink(p)
  \/ AcquireLockWrite(p)
  \/ ReleaseLock(p)

UpdateStep(p) ==
  \/ AcquireStateLock(p)
  \/ AslStat(p)
  \/ AslUnlink(p)
  \/ AslWrite(p)
  \/ UsGetState(p)
  \/ AtomicWriteFileWrite(p)
  \/ AtomicWriteFileRename(p)
  \/ ReleaseStateLock(p)

RunStep(p) ==
  \/ IsPaused(p)
  \/ GetLastRun(p)
  \/ JobRunReturns(p)
  \/ JobRunThrows(p)
  \/ Finish(p)

(***************************************************************************)
(* What earlier processes may have left behind when the model starts.      *)
(***************************************************************************)
\* A file written exactly LOCK_STALE_MS (= the smallest getStaleLockMs) ago:
\* not stale now, stale after the next tick.
EdgeTime == StartNow - LOCK_STALE_MS
\* A file older than the default threshold of an hour.
AncientTime == StartNow - DEFAULT_STALE_LOCK_MS - TICK_MS

\* locks/a.lock: none; a fresh record of a process that is gone; an old
\* record of a live process; a fresh record of a live process.
LeftLocks ==
  {NoLock, LockRecord(DeadPid, StartNow), LockRecord(OtherPid, OldTime),
   LockRecord(OtherPid, StartNow)}

\* Every kind of record acquireLock tells apart, at every age it tells apart.
AllLocks ==
  {NoLock, GarbledLock(StartNow)} \cup
  {LockRecord(pid, t) : pid \in RecordPids, t \in {StartNow, EdgeTime, OldTime, AncientTime}}

LeftStates ==
  {EmptyState,
   [EmptyState EXCEPT !.last["a"] = StartNow],
   [EmptyState EXCEPT !.paused = PausedList(<<"a">>)]}

\* state.lock: none; one a crashed process left just now; one left long ago.
LeftStateLocks ==
  {NoStateLock, StateLockRecord(DeadPid, StartNow), StateLockRecord(DeadPid, OldTime)}

InitWith(locks, states, stateLocks) ==
  /\ now = StartNow
  /\ \E f \in locks : lockFile = [q \in Qids |-> IF q = "a" THEN f ELSE NoLock]
  /\ stateLock \in stateLocks
  /\ stateFile \in states
  /\ serial = stateFile
  /\ started = 0
  /\ agents = NoAgents
  /\ registry = NoRegistry
  /\ proc = [p \in Procs |-> IdleProc]

(***************************************************************************)
(* Spec: concurrent invocations of the three entry points on job "a",      *)
(* within one instant of the clock.                                        *)
(***************************************************************************)
Init ==
  InitWith(LeftLocks, LeftStates, {NoStateLock, StateLockRecord(DeadPid, OldTime)})

Next ==
  \/ \E p \in Procs : \E scheduled \in BOOLEAN : StartRunJobNow(p, JobA, scheduled)
  \/ \E p \in Procs : StartRunAllDue(p, <<JobA>>)
  \/ \E p \in Procs : StartCheckMissed(p, <<JobA>>)
  \/ \E p \in Procs : LockStep(p) \/ UpdateStep(p) \/ RunStep(p)

Spec == Init /\ [][Next]_vars

(***************************************************************************)
(* SpecContend: concurrent runJobNow invocations on job "a".               *)
(***************************************************************************)
InitContend ==
  \/ InitWith({NoLock, LockRecord(DeadPid, StartNow), LockRecord(OtherPid, StartNow)},
              {EmptyState}, {NoStateLock})
  \/ InitWith({NoLock}, {EmptyState}, {StateLockRecord(DeadPid, OldTime)})

NextContend ==
  \/ \E p \in Procs : \E scheduled \in BOOLEAN : StartRunJobNow(p, JobA, scheduled)
  \/ \E p \in Procs : LockStep(p) \/ UpdateStep(p) \/ RunStep(p)

SpecContend == InitContend /\ [][NextContend]_vars

(***************************************************************************)
(* SpecState: concurrent markRun, pause and resume calls.                  *)
(***************************************************************************)
Updates ==
  {MarkRunUpd("a", JobA.interval), PauseUpd("a"), PauseUpd("b"), PauseUpd("all"),
   ResumeUpd("a"), ResumeUpd("all")}

InitState ==
  InitWith({NoLock}, {EmptyState, [EmptyState EXCEPT !.paused = PausedList(<<"a">>)]},
           LeftStateLocks)

NextState ==
  \/ \E p \in Procs : \E u \in Updates : StartUpdate(p, u)
  \/ \E p \in Procs : UpdateStep(p) \/ Finish(p)
  \/ Tick

SpecState == InitState /\ [][NextState]_vars

(***************************************************************************)
(* SpecSolo: one invocation of an entry point over a list of jobs, in      *)
(* every environment earlier processes may have left.                      *)
(***************************************************************************)
JobLists == UNION {[1 .. n -> JobPool] : n \in 0 .. MaxJobs}

Solo == CHOOSE p \in Procs : \A q \in Procs : p <= q

InitSolo ==
  InitWith(LeftLocks, LeftStates \cup {[EmptyState EXCEPT !.paused = AllPaused], CorruptState},
           LeftStateLocks)

StartSolo ==
  /\ started = 0
  /\ \/ \E job \in JobPool : \E scheduled \in BOOLEAN : StartRunJobNow(Solo, job, scheduled)
     \/ \E jobs \in JobLists : StartRunAllDue(Solo, jobs)
     \/ \E jobs \in JobLists : StartCheckMissed(Solo, jobs)

NextSolo ==
  \/ StartSolo
  \/ LockStep(Solo) \/ UpdateStep(Solo) \/ RunStep(Solo)
  \/ Tick

SpecSolo == InitSolo /\ [][NextSolo]_vars

(***************************************************************************)
(* SpecAcquire: one acquireLock call against every kind of lock file.      *)
(***************************************************************************)
StaleOptions == {0, MIN_STALE_MS}

InitAcquire == InitWith(AllLocks, {EmptyState}, {NoStateLock})

NextAcquire ==
  \/ \E staleLockMs \in StaleOptions : StartAcquireLock(Solo, "a", staleLockMs)
  \/ IsLockedRead(Solo)
  \/ IsLockedStat(Solo)
  \/ IsLockedUnlink(Solo)
  \/ AcquireLockWrite(Solo)
  \/ Finish(Solo)
  \/ Tick

SpecAcquire == InitAcquire /\ [][NextAcquire]_vars

(***************************************************************************)
(* Properties.                                                             *)
(***************************************************************************)
RunnerEntries == {"runJobNow", "runAllDue", "checkMissed"}

\* The process is between job.run's call and its return.
InRun(p) == proc[p].pc = "run"

\* The process is inside updateState's critical section: it created
\* state.lock and has not yet unlinked it.
HoldsStateLock(p) ==
  proc[p].pc \in {"us_getState", "atomicWriteFile_write", "atomicWriteFile_rename",
                  "releaseStateLock"}

\* C1: two processes that invoke runJobNow with scheduled = true on jobs of
\* the same qualified id never execute the job's operation at the same time.
C1_MutualExclusion ==
  \A p, q \in Procs :
    ~ ( /\ p # q
        /\ proc[p].entry = "runJobNow" /\ proc[p].sched
        /\ proc[q].entry = "runJobNow" /\ proc[q].sched
        /\ proc[p].job.qid = proc[q].job.qid
        /\ InRun(p) /\ InRun(q) )

\* C2: at most one process at a time is inside the critical section of the
\* state lock, also when a state.lock older than LOCK_STALE_MS is deleted
\* and taken over.
C2_StateLockExclusive ==
  \A p, q \in Procs : (HoldsStateLock(p) /\ HoldsStateLock(q)) => p = q

\* C3: state.json is never unparseable, and it reflects every update that
\* was committed: it equals the committed updaters applied one after the
\* other in the order of their renames.
C3_NoLostUpdate == ~stateFile.corrupt /\ stateFile = serial

\* C6: in every entry point (runJobNow, runAllDue, checkMissed) a process is
\* inside job.run only while it holds the lock it acquired for that job's id.
C6_RunOnlyUnderLock ==
  \A p \in Procs : (proc[p].entry \in RunnerEntries /\ InRun(p)) => proc[p].held

\* C4: when job.run throws, in any entry point, the job's entries in
\* state.json (last run and next run) are what they were before the run:
\* markRun is never called for it.
C4_FailedRunLeavesState ==
  \A p \in Procs :
    LET r == proc[p] IN
    (r.entry \in RunnerEntries /\ r.op = "threw") =>
      /\ r.marks = 0
      /\ stateFile.last[r.job.qid] = r.before.last[r.job.qid]
      /\ stateFile.next[r.job.qid] = r.before.next[r.job.qid]

\* A job that had run before was run again and threw.
C4_Witness ==
  \E p \in Procs :
    LET r == proc[p] IN
    /\ r.pc = "jobEnd" /\ r.op = "threw" /\ r.execs = 1
    /\ r.before.last[r.job.qid] # NoTime

\* C5 as stated: whenever job.run has returned, the invocation has written
\* the job's entry exactly once by the time the job's processing ends.
C5_AlwaysMarked ==
  \A p \in Procs :
    LET r == proc[p] IN
    (r.entry \in RunnerEntries /\ r.pc = "jobEnd" /\ r.op = "ok") => r.marks = 1

\* C5, amended: the job's entry is written at most once, only after job.run
\* has returned, with a timestamp not earlier than the start; it is written
\* exactly once unless markRun itself throws, and then it is not written
\* and the job's processing ends as a failure.
C5_MarkedOnceUnlessMarkRunFails ==
  \A p \in Procs :
    LET r == proc[p] IN
    r.entry \in RunnerEntries =>
      /\ r.marks > 0 => (r.op = "ok" /\ r.marks = 1 /\ r.markAt >= r.t0)
      /\ (r.pc = "jobEnd" /\ r.op = "ok") =>
           IF r.err = ""
             THEN r.marks = 1 /\ r.outcome = "ran"
                  /\ stateFile.last[r.job.qid] = r.markAt
             ELSE r.marks = 0 /\ r.outcome \in {"threw", "failed"}
                  /\ stateFile.last[r.job.qid] = r.before.last[r.job.qid]

\* A run that returned was recorded, at a later instant than its start.
C5_Witness ==
  \E p \in Procs :
    LET r == proc[p] IN
    /\ r.pc = "jobEnd" /\ r.op = "ok" /\ r.marks = 1 /\ r.markAt > r.t0
    /\ stateFile.last[r.job.qid] = r.markAt

Lists == {"ran", "skipped", "disabled", "paused", "failed"}

\* How often a qualified id occurs in the five result lists together.
Listed(r, qid) ==
  SeqCount(r.res.ran, qid) + SeqCount(r.res.skipped, qid) + SeqCount(r.res.disabled, qid)
    + SeqCount(r.res.paused, qid) + SeqCount(r.res.failed, qid)

\* The number of jobs the loop has dealt with.
Processed(r) == IF r.pc = "jobEnd" THEN r.idx ELSE r.idx - 1

\* C7: runAllDue puts every job it has dealt with in exactly one of ran,
\* skipped, disabled, paused and failed, whatever its gate outcome and
\* whether or not its processing throws; at the end of the loop the five
\* lists partition the input.
C7_ListsPartitionJobs ==
  \A p \in Procs :
    LET r == proc[p] IN
    r.entry = "runAllDue" =>
      /\ \A qid \in Qids :
           Listed(r, qid) = Cardinality({i \in 1 .. Processed(r) : jobIdOf(r.jobs[i]) = qid})
      /\ r.pc = "jobEnd" =>
           /\ r.outcome \in Lists
           /\ Len(r.res[r.outcome]) > 0
           /\ r.res[r.outcome][Len(r.res[r.outcome])] = r.job.qid

\* runAllDue is at the end of a list of two jobs, the last of which threw.
C7_Witness ==
  \E p \in Procs :
    LET r == proc[p] IN
    /\ r.entry = "runAllDue" /\ r.pc = "jobEnd"
    /\ Len(r.jobs) = 2 /\ r.idx = 2 /\ jobIdOf(r.jobs[1]) # jobIdOf(r.jobs[2])
    /\ r.op = "threw" /\ r.res.failed = <<r.job.qid>>

\* C8: runJobNow with scheduled = true on a paused job returns normally
\* without acquiring the job lock, running the job or changing state; with
\* scheduled = false the pause flag is ignored and the job is executed.
C8_PauseGate ==
  \A p \in Procs :
    LET r == proc[p]
        paused == ~r.before.corrupt /\ isPaused(r.before, r.job.qid)
    IN
    (r.entry = "runJobNow" /\ r.pc = "jobEnd") =>
      /\ (r.sched /\ paused) => r.outcome = "paused"
      /\ r.outcome = "paused" =>
           /\ r.sched /\ paused /\ r.err = ""
           /\ ~r.acquired /\ r.found = NoLock /\ r.released = 0
           /\ r.execs = 0 /\ r.marks = 0 /\ stateFile = r.before
      /\ (~r.sched /\ paused /\ r.outcome # "locked") => r.execs = 1

\* A scheduled run of a job on the paused list has returned.
C8_Witness ==
  \E p \in Procs :
    LET r == proc[p] IN
    /\ r.entry = "runJobNow" /\ r.pc = "jobEnd" /\ r.sched
    /\ r.outcome = "paused" /\ r.before.paused = PausedList(<<r.job.qid>>)

\* C9: when acquireLock refuses in runJobNow, runJobNow returns normally:
\* the job is not run, state is not written, and the lock file it found is
\* neither released nor replaced by it.
C9_RefusedLockReturns ==
  \A p \in Procs :
    LET r == proc[p] IN
    (r.entry = "runJobNow" /\ r.outcome = "locked") =>
      /\ r.pc = "jobEnd" /\ r.err = ""
      /\ r.refusedBy.exists
      /\ ~r.acquired /\ r.released = 0 /\ r.active = {}
      /\ r.execs = 0 /\ r.marks = 0

\* runJobNow was refused the lock by a process that is running the job.
C9_Witness ==
  \E p, q \in Procs :
    /\ proc[p].entry = "runJobNow" /\ proc[p].pc = "jobEnd"
    /\ proc[p].outcome = "locked" /\ proc[p].refusedBy.pid = q
    /\ InRun(q) /\ lockFile[proc[p].job.qid] = proc[p].refusedBy

\* C10: acquireLock returns true, having deleted any file it found and
\* created a record with its own pid, exactly when the lock file is absent,
\* unparseable, older than staleLockMs whatever the liveness of its pid, or
\* records a pid the probe reports as no such process; it returns false and
\* leaves the file in place when the pid is alive, the probe fails with a
\* permission error, or no pid is recorded.
C10_AcquireLockDecision ==
  \A p \in Procs :
    LET r == proc[p]
        f == r.found
        old == f.exists /\ f.parse /\ r.statAt - f.mtime > r.staleLockMs
        reclaim ==
          \/ ~f.exists
          \/ ~f.parse
          \/ old
          \/ f.pid # NoPid /\ kill0(f.pid) = "ESRCH"
        keep ==
          /\ f.exists /\ f.parse /\ ~old
          /\ \/ kill0(f.pid) = "ok"
             \/ f.pid # NoPid /\ kill0(f.pid) = "EPERM"
             \/ f.pid = NoPid
    IN
    (r.entry = "acquireLock" /\ r.pc = "jobEnd") =>
      /\ r.outcome = "acquired" <=> reclaim
      /\ r.outcome = "locked" <=> keep
      /\ r.outcome = "acquired" =>
           /\ lockFile[r.job.qid].exists /\ lockFile[r.job.qid].parse
           /\ lockFile[r.job.qid].pid = p
           /\ lockFile[r.job.qid].mtime >= r.t0
           /\ r.job.qid \in r.active
      /\ r.outcome = "locked" => (lockFile[r.job.qid] = f /\ r.active = {})

\* acquireLock took over the record of a live process because it was older
\* than staleLockMs.
C10_Witness ==
  \E p \in Procs :
    LET r == proc[p] IN
    /\ r.entry = "acquireLock" /\ r.pc = "jobEnd" /\ r.outcome = "acquired"
    /\ r.found.exists /\ r.found.parse /\ kill0(r.found.pid) = "ok"
    /\ r.statAt - r.found.mtime > r.staleLockMs
    /\ lockFile[r.job.qid].pid = p

(***************************************************************************)
(* SpecWithLock: withLock calls, one after the other, against every kind   *)
(* of lock file.                                                           *)
(***************************************************************************)
InitWithLock == InitWith(AllLocks, {EmptyState}, {NoStateLock})

NextWithLock ==
  \/ \E staleLockMs \in StaleOptions : StartWithLock(Solo, "a", staleLockMs)
  \/ LockStep(Solo)
  \/ JobRunReturns(Solo)
  \/ JobRunThrows(Solo)
  \/ Finish(Solo)
  \/ Tick

SpecWithLock == InitWithLock /\ [][NextWithLock]_vars

\* C11: withLock returns false without running fn when the lock is refused;
\* otherwise it runs fn exactly once and, whether fn returns or throws, the
\* lock file is gone and the id is out of activeLocks before withLock
\* completes; it returns true when fn returned and lets fn's error through
\* when fn threw.
C11_WithLock ==
  \A p \in Procs :
    LET r == proc[p] IN
    (r.entry = "withLock" /\ r.pc = "jobEnd") =>
      /\ r.outcome \in {"locked", "ran", "threw"}
      /\ r.outcome = "locked" =>
           (r.execs = 0 /\ r.op = "none" /\ ~r.acquired /\ r.released = 0
            /\ r.refusedBy.exists)
      /\ r.outcome # "locked" =>
           /\ r.acquired /\ r.execs = 1 /\ r.released = 1
           /\ lockFile[r.job.qid] = NoLock /\ r.active = {}
           /\ r.outcome = "ran" <=> r.op = "ok"
           /\ r.outcome = "threw" <=> r.op = "threw"

\* withLock took over a stale lock, fn threw, and the lock is released.
C11_Witness ==
  \E p \in Procs :
    LET r == proc[p] IN
    /\ r.entry = "withLock" /\ r.pc = "jobEnd" /\ r.op = "threw"
    /\ r.found.exists /\ r.released = 1 /\ lockFile[r.job.qid] = NoLock

(***************************************************************************)
(* SpecPause: pause and resume calls, one after the other, from every      *)
(* shape of the _paused key.                                               *)
(***************************************************************************)
PauseStates ==
  {[EmptyState EXCEPT !.paused = ps] :
     ps \in {NoPaused, AllPaused, PausedList(<<"a">>), PausedList(<<"b">>),
             PausedList(<<"a", "b">>), PausedList(<<"b", "a">>)}}

PauseCalls ==
  {PauseUpd(id) : id \in {"a", "b", "all"}} \cup {ResumeUpd(id) : id \in {"a", "b", "all"}}

InitPause == InitWith({NoLock}, PauseStates, LeftStateLocks)

NextPause ==
  \/ \E u \in PauseCalls : StartUpdate(Solo, u)
  \/ UpdateStep(Solo)
  \/ Finish(Solo)
  \/ Tick

SpecPause == InitPause /\ [][NextPause]_vars

\* resume(id) has returned, and the call before it was pause(id).
ResumedAfterPause(r) ==
  /\ r.entry = "resume" /\ r.pc = "jobEnd" /\ r.err = ""
  /\ r.prev = PauseUpd(r.upd.id)

\* C12 as stated: from any prior pause state, after pause(id) then
\* resume(id), isPaused(id) is false; after pause('all') then resume('all'),
\* getPauseStatus() is {all: false, jobs: []}.
C12_PauseThenResume ==
  \A p \in Procs :
    LET r == proc[p] IN
    ResumedAfterPause(r) =>
      IF r.upd.id = "all"
        THEN getPauseStatus(stateFile) = [all |-> FALSE, jobs |-> <<>>]
        ELSE ~isPaused(stateFile, r.upd.id)

\* C12, amended: after pause(id) then resume(id), isPaused(id) is false
\* unless the global pause was in effect, when both calls change nothing
\* and isPaused(id) stays true; after pause('all') then resume('all'),
\* getPauseStatus() is {all: false, jobs: []}.
C12_PauseThenResumeUnlessGlobal ==
  \A p \in Procs :
    LET r == proc[p] IN
    ResumedAfterPause(r) =>
      IF r.upd.id = "all"
        THEN getPauseStatus(stateFile) = [all |-> FALSE, jobs |-> <<>>]
        ELSE /\ isPaused(stateFile, r.upd.id) <=> r.before.paused = AllPaused
             /\ r.before.paused = AllPaused => stateFile = r.before

\* pause("a") then resume("a") were applied to a list that held "a" and "b".
C12_Witness ==
  \E p \in Procs :
    LET r == proc[p] IN
    /\ ResumedAfterPause(r) /\ r.upd.id = "a"
    /\ stateFile.paused = PausedList(<<"b">>)

\* C13: while the global pause is in effect, pause(id) and resume(id) for a
\* specific id leave state.json unchanged and isPaused stays true for every
\* id; of the pause and resume calls only resume('all') lifts the global
\* pause.
C13_GlobalPauseFrame ==
  \A p \in Procs :
    LET r == proc[p] IN
    (r.entry \in {"pause", "resume"} /\ r.pc = "jobEnd" /\ r.err = ""
       /\ r.before.paused = AllPaused) =>
      /\ r.upd.id # "all" =>
           /\ stateFile = r.before
           /\ \A id \in Qids \cup {""} : isPaused(stateFile, id)
      /\ stateFile.paused # AllPaused <=> r.upd = ResumeUpd("all")

\* resume("a") has returned while everything was, and still is, paused.
C13_Witness ==
  \E p \in Procs :
    LET r == proc[p] IN
    /\ r.entry = "resume" /\ r.pc = "jobEnd" /\ r.err = "" /\ r.upd.id = "a"
    /\ r.before.paused = AllPaused /\ stateFile.paused = AllPaused

\* C14: a successful scheduled runJobNow of an interval job writes <qid> and
\* <qid>:nextRun in one update, nextRun being <qid> plus the interval; a
\* manual run, runAllDue, checkMissed, a run of a job without interval and
\* a failed run leave <qid>:nextRun as it was.
C14_NextRun ==
  \A p \in Procs :
    LET r == proc[p]
        qid == r.job.qid
    IN
    (r.entry \in RunnerEntries /\ r.pc = "jobEnd") =>
      IF r.marks = 1 /\ r.entry = "runJobNow" /\ r.sched /\ r.job.interval # 0
        THEN /\ stateFile.last[qid] = r.markAt
             /\ stateFile.next[qid] = stateFile.last[qid] + r.job.interval
        ELSE stateFile.next[qid] = r.before.next[qid]

\* A scheduled run of an interval job was recorded some time after it began.
C14_Witness ==
  \E p \in Procs :
    LET r == proc[p] IN
    /\ r.entry = "runJobNow" /\ r.pc = "jobEnd" /\ r.sched /\ r.marks = 1
    /\ r.markAt > r.t0
    /\ stateFile.next[r.job.qid] = r.markAt + r.job.interval

\* The list ends with the id of the job being processed.
EndsWithJob(r, list) ==
  Len(r.res[list]) > 0 /\ r.res[list][Len(r.res[list])] = r.job.qid

NamespaceQids == {JobPm.qid, JobAm.qid}

NamespaceLists == {<<JobPm, JobAm>>, <<JobAm, JobPm>>}

NamespaceLocks ==
  {NoLock, NoDir, LockRecord(OtherPid, StartNow), LockRecord(DeadPid, StartNow)}

NamespaceStates ==
  {EmptyState,
   [EmptyState EXCEPT !.last["am/tick"] = OldTime, !.next["am/tick"] = StartNow],
   [EmptyState EXCEPT !.paused = PausedList(<<"am/tick">>)],
   [EmptyState EXCEPT !.paused = PausedList(<<"pm/tick">>)]}

InitNamespace ==
  /\ now = StartNow
  /\ \E f \in NamespaceLocks, g \in NamespaceLocks :
       lockFile = [q \in Qids |-> IF q = "pm/tick" THEN f
                                  ELSE IF q = "am/tick" THEN g ELSE NoLock]
  /\ stateLock = NoStateLock
  /\ stateFile \in NamespaceStates
  /\ serial = stateFile
  /\ started = 0
  /\ agents = NoAgents
  /\ registry = NoRegistry
  /\ proc = [p \in Procs |-> IdleProc]

StartNamespace ==
  /\ started = 0
  /\ \/ \E job \in {JobPm, JobAm} : \E scheduled \in BOOLEAN :
          StartRunJobNow(Solo, job, scheduled)
     \/ \E jobs \in NamespaceLists : StartRunAllDue(Solo, jobs)
     \/ \E jobs \in NamespaceLists : StartCheckMissed(Solo, jobs)
     \/ \E id \in NamespaceQids :
          \E u \in {MarkRunUpd(id, JobPm.interval), PauseUpd(id), ResumeUpd(id)} :
            StartUpdate(Solo, u)
     \/ \E id \in NamespaceQids : StartAcquireLock(Solo, id, 0)
     \/ \E id \in NamespaceQids : StartWithLock(Solo, id, 0)

NextNamespace ==
  \/ StartNamespace
  \/ LockStep(Solo) \/ RunStep(Solo)
  \* no state.lock is left over: acquireStateLock never waits
  \/ AcquireStateLock(Solo) \/ AslWrite(Solo) \/ UsGetState(Solo)
  \/ AtomicWriteFileWrite(Solo) \/ AtomicWriteFileRename(Solo)
  \/ ReleaseStateLock(Solo)
  \/ Tick

SpecNamespace == InitNamespace /\ [][NextNamespace]_vars

\* The qualified id the invocation is working on.
Target(r) == IF r.entry \in {"markRun", "pause", "resume"} THEN r.upd.id ELSE r.job.qid

\* Everything the program keeps about one qualified id.
Entries(qid) ==
  <<stateFile.last[qid], stateFile.next[qid], isPaused(stateFile, qid),
    SeqCount(getPauseStatus(stateFile).jobs, qid), lockFile[qid]>>

\* runAllDue is at the end of the second of the two "tick" jobs, the first
\* having run, and the second was neither paused nor ever run before.
BothDue(r) ==
  /\ r.entry = "runAllDue" /\ r.pc = "jobEnd" /\ r.idx = 2
  /\ Len(r.res.ran) > 0 /\ r.res.ran[1] = jobIdOf(r.jobs[1])
  /\ r.before.last[jobIdOf(r.jobs[2])] = NoTime
  /\ ~isPaused(r.before, jobIdOf(r.jobs[2]))

\* C16: jobs that share a bare id in different namespaces are independent,
\* one invocation at a time: runAllDue over both executes both and records
\* two distinct state entries, and no step of an invocation working on
\* ns1/id changes the last-run entry, the next-run entry, the pause status
\* or the lock file of ns2/id.
C16_NamespacesIndependent ==
  /\ [](\A p \in Procs :
         LET r == proc[p] IN
         BothDue(r) =>
           /\ r.execs = 1 /\ r.outcome \in {"ran", "failed"}
           /\ r.outcome = "ran" =>
                /\ r.res.ran = <<jobIdOf(r.jobs[1]), jobIdOf(r.jobs[2])>>
                /\ stateFile.last[jobIdOf(r.jobs[1])] # NoTime
                /\ stateFile.last[jobIdOf(r.jobs[2])] = r.markAt)
  /\ [][\A qid \in NamespaceQids :
          (\A p \in Procs : (proc[p].pc # "idle" => Target(proc[p]) # qid)
                          /\ (proc'[p].pc # "idle" => Target(proc'[p]) # qid))
            => Entries(qid)' = Entries(qid)]_vars

\* runAllDue over pm/tick and am/tick has run both, and both entries are set.
C16_Witness ==
  \E p \in Procs :
    LET r == proc[p] IN
    /\ BothDue(r) /\ r.outcome = "ran"
    /\ r.res.ran = <<"pm/tick", "am/tick">>
    /\ stateFile.last["pm/tick"] # NoTime /\ stateFile.last["am/tick"] # NoTime

\* C17: acquireLock handles namespaced qualified ids: for an id `ns/id`
\* with no lock file, whether or not the directory locks/<ns>/ exists,
\* acquireLock returns true and creates the lock record, and once released
\* (as withLock does after fn) the lock file is gone, so that it can be
\* acquired again.
C17_NamespacedAcquire ==
  \A p \in Procs :
    LET r == proc[p]
        qid == r.job.qid
    IN
    (r.entry \in {"acquireLock", "withLock"} /\ r.pc = "jobEnd"
       /\ qid \in NamespaceQids /\ ~r.found.exists) =>
      /\ r.acquired /\ r.err # "ENOENT"
      /\ r.entry = "acquireLock" =>
           (r.outcome = "acquired" /\ lockFile[qid].exists /\ lockFile[qid].pid = p)
      /\ r.entry = "withLock" => (r.released = 1 /\ ~lockFile[qid].exists)

(***************************************************************************)
(* launchd.js: installJob, uninstallJob and sync.  LAUNCH_AGENTS_DIR       *)
(* exists, so the awaited mkdir is part of the step that follows it.       *)
(***************************************************************************)
LaunchdEntries == {"installJob", "uninstallJob", "sync"}

\* The cron expression of job.schedule, or the error normalizeSchedule
\* throws.
cronSchedule(job) == normalizeSchedule(chars(job.schedule))

\* generateJobPlistConfig throws what normalizeSchedule and
\* cronToCalendarInterval throw, and for an interval under MIN_INTERVAL_MS:
\* the error's message, "" when it returns.
configError(job) ==
  IF job.schedule # "" THEN
    IF cronSchedule(job).threw # "" THEN cronSchedule(job).threw
    ELSE cronToCalendarInterval(cronSchedule(job).cron).threw
  ELSE IF job.interval # 0 /\ job.interval < MIN_INTERVAL_MS THEN "interval must be at least"
  ELSE ""

configThrows(job) == configError(job) # ""

\* plist.build(generateJobPlistConfig(job, jobFileDir, namespace)): the node
\* and cli paths, the log paths and PATH are the same in every plist.
generateJobPlistConfig(job, namespace) ==
  [Label |-> getJobLabel(job.id, namespace),
   ProgramArguments |-> <<"run", "--scheduled", qualifyJobId(job.id, namespace)>>,
   StartCalendarInterval |->
     IF job.schedule # "" THEN cronToCalendarInterval(cronSchedule(job).cron) ELSE NoCalendar,
   StartInterval |-> IF job.schedule = "" THEN job.interval \div 1000 ELSE 0]

InstallItem(job, namespace) ==
  [kind |-> "install", job |-> job, jobId |-> job.id, namespace |-> namespace]
UninstallItem(jobId, namespace) ==
  [kind |-> "uninstall", job |-> NoLaunchdJob, jobId |-> jobId, namespace |-> namespace]
ListItem == [NoItem EXCEPT !.kind = "list"]

\* The item's plist file and its qualified id.
plistPath(item) == getJobPlistPath(item.jobId, item.namespace)
qualifiedId(item) == qualifyJobId(item.jobId, item.namespace)

\* The function returns or throws: the process exits.
ldDone(r, err) == [r EXCEPT !.pc = "ld_done", !.err = err]

\* The next call the function makes, up to its first awaited file operation.
ldNext(r) ==
  IF r.ld.queue = <<>>
    THEN IF r.ld.call.fn = "syncAll" THEN [r EXCEPT !.pc = "sync_source"] ELSE ldDone(r, "")
  ELSE LET item == Head(r.ld.queue)
           n == [r EXCEPT !.ld.item = item, !.ld.queue = Tail(@)]
       IN
       IF item.kind = "install" THEN
         IF configThrows(item.job) THEN ldDone(n, configError(item.job))
         ELSE [n EXCEPT !.pc = "install_read",
                        !.ld.xml = generateJobPlistConfig(item.job, item.namespace)]
       ELSE IF item.kind = "uninstall" THEN [n EXCEPT !.pc = "uninstall_unlink"]
       ELSE [n EXCEPT !.pc = "sync_list"]

\* Variant: installJob never compares with the existing file.
installResultAlways(existing, xml) == "installed"

\* installJob: `existing === xml`; ENOENT leaves the comparison out.
installResult(existing, xml) ==
  IF existing.exists /\ existing.xml = xml THEN "unchanged" ELSE "installed"

\* installJob: fs.readFile(plistPath); then 'unchanged', or unloadPlist.
InstallRead(p) ==
  LET r == proc[p] IN
  /\ r.pc = "install_read"
  /\ Set(p, IF installResult(agents[plistPath(r.ld.item)], r.ld.xml) = "unchanged"
              THEN ldNext([r EXCEPT !.ld.unchanged = Append(@, r.ld.item.jobId)])
            ELSE [r EXCEPT !.ld.unloads = @ + 1, !.pc = "install_write"])
  /\ UNCHANGED <<registry, agents, now, lockFile, stateLock, stateFile, serial, started>>

\* installJob: fs.writeFile(plistPath, xml), loadPlist, 'installed'.
InstallWrite(p) ==
  LET r == proc[p] IN
  /\ r.pc = "install_write"
  /\ agents' = [agents EXCEPT ![plistPath(r.ld.item)] = File(r.ld.xml)]
  /\ Set(p, ldNext([r EXCEPT !.ld.writes = @ + 1, !.ld.loads = @ + 1,
                              !.ld.installed = Append(@, r.ld.item.jobId)]))
  /\ UNCHANGED <<registry, now, lockFile, stateLock, stateFile, serial, started>>

\* Variant: a job without a plist keeps its lock and its pause entry.
afterUnlinkIfExisted(r, existed) ==
  IF existed THEN [r EXCEPT !.ld.unlinks = @ + 1, !.pc = "clearLock"] ELSE ldNext(r)

\* uninstallJob: after fs.unlink(plistPath), in the try block or, on
\* ENOENT, in the catch block: clearLock(qualifiedId) comes next.
afterUnlink(r, existed) ==
  [r EXCEPT !.ld.unlinks = IF existed THEN @ + 1 ELSE @, !.pc = "clearLock"]

\* uninstallJob: unloadPlist and fs.unlink(plistPath).
UninstallUnlink(p) ==
  LET r == proc[p]
      existed == agents[plistPath(r.ld.item)].exists
  IN
  /\ r.pc = "uninstall_unlink"
  /\ agents' = [agents EXCEPT ![plistPath(r.ld.item)] = NoFile]
  /\ Set(p, afterUnlink([r EXCEPT !.ld.unloads = @ + 1], existed))
  /\ UNCHANGED <<registry, now, lockFile, stateLock, stateFile, serial, started>>

\* lock.js clearLock(jobId): the lock file is removed, whoever wrote it;
\* uninstallJob goes on with resume(qualifiedId).
ClearLock(p) ==
  LET r == proc[p] IN
  /\ r.pc = "clearLock"
  /\ lockFile' = [lockFile EXCEPT ![qualifiedId(r.ld.item)] = Unlinked(@)]
  /\ Set(p, [r EXCEPT !.upd = ResumeUpd(qualifiedId(r.ld.item)),
                      !.pc = "acquireStateLock"])
  /\ UNCHANGED <<registry, agents, now, stateLock, stateFile, serial, started>>

\* uninstallJob: resume has returned, or has thrown an error that is not
\* ENOENT, which the catch block throws again.
UninstallReturn(p) ==
  LET r == proc[p] IN
  /\ r.entry \in LaunchdEntries /\ r.pc = "jobEnd"
  /\ Set(p, IF r.err # "" THEN ldDone(r, r.err) ELSE ldNext(r))
  /\ UNCHANGED <<registry, agents, now, lockFile, stateLock, stateFile, serial, started>>

\* sync: the job plists of this namespace whose id is not among the jobs.
orphans(files, jobs, namespace) ==
  {parsed \in {parsePlistFilename(f) : f \in files} :
     /\ parsed # NoParse
     /\ parsed.namespace = namespace
     /\ \A i \in 1 .. Len(jobs) : jobs[i].id # parsed.jobId}

\* sync: listInstalledPlists (fs.readdir), the orphans, in readdir's order.
SyncList(p) ==
  LET r == proc[p]
      orphaned == orphans({f \in PlistFiles : agents[f].exists}, r.ld.call.jobs,
                          r.ld.call.namespace)
  IN
  /\ r.pc = "sync_list"
  /\ \E order \in [1 .. Cardinality(orphaned) -> orphaned] :
       /\ \A i, j \in DOMAIN order : order[i] = order[j] => i = j
       /\ Set(p, ldNext([r EXCEPT !.ld.orphaned = orphaned,
                                   !.ld.queue = [i \in DOMAIN order |->
                                      UninstallItem(order[i].jobId, order[i].namespace)]]))
  /\ UNCHANGED <<registry, agents, now, lockFile, stateLock, stateFile, serial, started>>

\* The call has returned or thrown: the process exits.
LaunchdExit(p) ==
  LET r == proc[p] IN
  /\ r.pc = "ld_done"
  /\ Set(p, Exited(r))
  /\ lockFile' = Retire(p, lockFile)
  /\ UNCHANGED <<registry, agents, now, stateLock, stateFile, serial, started>>

\* installJob(job, projectPath, namespace), uninstallJob(jobId, { namespace })
\* or sync(jobs, projectPath, namespace) is called.
StartLaunchd(p, call) ==
  LET enabled == SelectSeq(call.jobs, isEnabled)
      disabled == SelectSeq(call.jobs, LAMBDA j : ~isEnabled(j))
      queue ==
        IF call.fn = "installJob" THEN <<InstallItem(call.jobs[1], call.namespace)>>
        ELSE IF call.fn = "uninstallJob" THEN <<UninstallItem(call.jobId, call.namespace)>>
        ELSE [i \in 1 .. Len(enabled) |-> InstallItem(enabled[i], call.namespace)]
             \o [i \in 1 .. Len(disabled) |-> UninstallItem(disabled[i].id, call.namespace)]
             \o <<ListItem>>
  IN
  /\ CanStart(p)
  /\ started' = started + 1
  /\ Set(p, ldNext([NewProc(p, call.fn)
                      EXCEPT !.ld = [NoLd EXCEPT !.call = call, !.queue = queue,
                                                 !.before = agents]]))
  /\ UNCHANGED <<registry, agents, now, lockFile, stateLock, stateFile, serial>>

LaunchdStep(p) ==
  \/ InstallRead(p)
  \/ InstallWrite(p)
  \/ UninstallUnlink(p)
  \/ ClearLock(p)
  \/ UninstallReturn(p)
  \/ SyncList(p)
  \/ LaunchdExit(p)

(***************************************************************************)
(* SpecLaunchd: one installJob, uninstallJob or sync call, and the same    *)
(* call again, over the plists, locks and pause entries left by earlier    *)
(* calls.                                                                  *)
(***************************************************************************)
TickOn == [id |-> "tick", schedule |-> "", interval |-> 10000, enabled |-> TRUE]
TickOff == [TickOn EXCEPT !.enabled = FALSE]
TickSlow == [TickOn EXCEPT !.interval = 20000]
BeatOn == [id |-> "beat", schedule |-> "0 9 * * *", interval |-> 0, enabled |-> TRUE]
BeatFast == [id |-> "beat", schedule |-> "", interval |-> 5000, enabled |-> TRUE]
LaunchdJobs == {TickOn, TickOff, TickSlow, BeatOn, BeatFast}

\* Lists of jobs with distinct ids, as a source file holds them.
LaunchdLists ==
  {jobs \in UNION {[1 .. n -> LaunchdJobs] : n \in 0 .. MaxJobs} :
     \A i, j \in DOMAIN jobs : jobs[i].id = jobs[j].id => i = j}

LaunchdCalls ==
  {[NoCall EXCEPT !.fn = "sync", !.jobs = jobs, !.namespace = namespace] :
     jobs \in LaunchdLists, namespace \in Namespaces}
  \cup {[NoCall EXCEPT !.fn = "installJob", !.jobs = <<job>>, !.jobId = job.id,
                        !.namespace = namespace] :
          job \in LaunchdJobs, namespace \in Namespaces}
  \cup {[NoCall EXCEPT !.fn = "uninstallJob", !.jobId = jobId, !.namespace = namespace] :
          jobId \in LaunchdIds, namespace \in Namespaces}

\* installWakeChecker's plist.
WakeCheckerPlist ==
  File([NoXml EXCEPT !.Label = WAKE_CHECKER_LABEL, !.ProgramArguments = <<"check-missed">>])

\* What an earlier installJob of the job `id` of `namespace` has written.
InstalledPlists(jobId, namespace) ==
  {File(generateJobPlistConfig(job, namespace)) :
     job \in {j \in {TickOn, TickSlow, BeatOn} : j.id = jobId}}

\* One job plist an earlier call has left, or none.
LeftPlists ==
  {[path |-> "", file |-> NoFile]}
  \cup UNION {{[path |-> getJobPlistPath(i, n), file |-> file] :
                 file \in InstalledPlists(i, n)} : i \in LaunchdIds, n \in Namespaces}

\* LaunchAgents holds the wake checker's plist and at most two job plists.
LeftAgents ==
  {[f \in PlistFiles |->
      IF f = getWakeCheckerPlistPath THEN WakeCheckerPlist
      ELSE IF f = one.path THEN one.file
      ELSE IF f = two.path THEN two.file
      ELSE NoFile] : one \in LeftPlists, two \in LeftPlists}

\* Nothing left; or live locks, pause entries, last runs and a stale
\* state.lock; or dead locks and a global pause.
LeftByRuns ==
  {[locks |-> [q \in Qids |-> NoLock], state |-> EmptyState, stateLock |-> NoStateLock],
   [locks |-> [q \in Qids |-> IF q \in LaunchdQids THEN LockRecord(OtherPid, StartNow)
                                ELSE NoLock],
    state |-> [EmptyState EXCEPT
                 !.last = [q \in Qids |-> IF q \in LaunchdQids THEN OldTime ELSE NoTime],
                 !.paused = PausedList(<<"tick", "pm/tick", "beat", "pm.eu/tick">>)],
    stateLock |-> StateLockRecord(DeadPid, OldTime)],
   [locks |-> [q \in Qids |-> IF q \in LaunchdQids THEN LockRecord(DeadPid, OldTime)
                                ELSE NoLock],
    state |-> [EmptyState EXCEPT !.paused = AllPaused],
    stateLock |-> NoStateLock]}

InitLaunchd ==
  /\ now = StartNow
  /\ \E left \in LeftByRuns :
       /\ lockFile = left.locks
       /\ stateFile = left.state
       /\ stateLock = left.stateLock
  /\ agents \in LeftAgents
  /\ registry = NoRegistry
  /\ serial = stateFile
  /\ started = 0
  /\ proc = [p \in Procs |-> IdleProc]

NextLaunchd ==
  \/ \E call \in LaunchdCalls :
       /\ started = 0 \/ call = proc[Solo].prev
       /\ StartLaunchd(Solo, call)
  \/ LaunchdStep(Solo)
  \* resume, inside uninstallJob; no state.lock makes it wait
  \/ AcquireStateLock(Solo) \/ AslUnlink(Solo) \/ AslWrite(Solo) \/ UsGetState(Solo)
  \/ AtomicWriteFileWrite(Solo) \/ AtomicWriteFileRename(Solo)
  \/ ReleaseStateLock(Solo)

SpecLaunchd == InitLaunchd /\ [][NextLaunchd]_vars

\* sync has returned.
SyncDone(r) == r.entry = "sync" /\ r.pc = "ld_done" /\ r.err = ""

\* C18: after sync(jobs, namespace) completes, the installed job plists of
\* `namespace` are exactly those of the enabled jobs in `jobs`, each with
\* the bytes installJob writes for it; the job plists of other namespaces
\* and the wake checker's plist are as they were before the call.
C18_SyncExact ==
  \A p \in Procs :
    LET r == proc[p]
        jobs == r.ld.call.jobs
        namespace == r.ld.call.namespace
    IN
    SyncDone(r) =>
      /\ \A id \in LaunchdIds :
           agents[getJobPlistPath(id, namespace)].exists
             <=> \E i \in DOMAIN jobs : jobs[i].id = id /\ isEnabled(jobs[i])
      /\ \A i \in DOMAIN jobs :
           isEnabled(jobs[i]) =>
             agents[getJobPlistPath(jobs[i].id, namespace)]
               = File(generateJobPlistConfig(jobs[i], namespace))
      /\ \A id \in LaunchdIds, other \in Namespaces \ {namespace} :
           agents[getJobPlistPath(id, other)] = r.ld.before[getJobPlistPath(id, other)]
      /\ agents[getWakeCheckerPlistPath] = r.ld.before[getWakeCheckerPlistPath]

\* C19: installJob is idempotent: when a plist with identical bytes exists
\* it returns 'unchanged' without any unload, write or load, and otherwise
\* it writes the plist; the same installJob call made again returns
\* 'unchanged' and leaves the file as it is; the same sync call made again
\* installs nothing and removes nothing.
C19_InstallIdempotent ==
  \A p \in Procs :
    LET r == proc[p]
        call == r.ld.call
        path == plistPath(r.ld.item)
    IN
    /\ (r.entry = "installJob" /\ r.pc = "ld_done" /\ r.err = "") =>
         /\ IF r.ld.before[path] = File(generateJobPlistConfig(call.jobs[1], call.namespace))
              THEN /\ r.ld.unchanged = <<call.jobId>> /\ r.ld.installed = <<>>
                   /\ r.ld.unloads = 0 /\ r.ld.writes = 0 /\ r.ld.loads = 0
                   /\ agents = r.ld.before
              ELSE /\ r.ld.installed = <<call.jobId>> /\ r.ld.unchanged = <<>>
                   /\ r.ld.writes = 1
                   /\ agents[path] = File(generateJobPlistConfig(call.jobs[1], call.namespace))
         /\ r.prev = call => (r.ld.unchanged = <<call.jobId>> /\ agents = r.ld.before)
    /\ (SyncDone(r) /\ r.prev = call) =>
         /\ r.ld.installed = <<>> /\ r.ld.writes = 0 /\ r.ld.loads = 0
         /\ r.ld.unlinks = 0 /\ r.ld.orphaned = {}
         /\ agents = r.ld.before

\* The second of two equal installJob calls has returned 'unchanged'.
C19_Witness ==
  \E p \in Procs :
    LET r == proc[p] IN
    /\ r.entry = "installJob" /\ r.pc = "ld_done" /\ r.err = ""
    /\ r.prev = r.ld.call /\ r.ld.unchanged = <<r.ld.call.jobId>>
    /\ agents[plistPath(r.ld.item)].exists

\* An uninstallJob call, on its own or inside sync, has completed.
Uninstalled(r) ==
  /\ r.err = "" /\ r.ld.item.kind = "uninstall"
  /\ \/ r.entry \in LaunchdEntries /\ r.pc = "jobEnd"
     \/ r.entry = "uninstallJob" /\ r.pc = "ld_done"

\* C20: after uninstallJob(id, { namespace }) completes, whether or not a
\* plist existed, the job's plist file does not exist, the lock file of its
\* qualified id does not exist and the qualified id is not in the per-job
\* paused list; the job's last-run and next-run entries are unchanged.
C20_Uninstalled ==
  \A p \in Procs :
    LET r == proc[p]
        qid == qualifiedId(r.ld.item)
    IN
    Uninstalled(r) =>
      /\ ~agents[plistPath(r.ld.item)].exists
      /\ ~lockFile[qid].exists
      /\ ~SeqHas(getPauseStatus(stateFile).jobs, qid)
      /\ stateFile.last[qid] = r.before.last[qid]
      /\ stateFile.next[qid] = r.before.next[qid]

\* uninstallJob has completed for a job that had no plist, but a last run
\* and, before the call, an entry in the paused list.
C20_Witness ==
  \E p \in Procs :
    LET r == proc[p]
        qid == qualifiedId(r.ld.item)
    IN
    /\ Uninstalled(r) /\ r.entry = "uninstallJob" /\ r.pc = "ld_done"
    /\ r.ld.unlinks = 0 /\ ~r.ld.before[plistPath(r.ld.item)].exists
    /\ SeqHas(r.before.paused.jobs, qid) /\ stateFile.last[qid] # NoTime
    /\ stateFile.paused.kind = "list"

(***************************************************************************)
(* SpecConfig: one call of generateJobPlistConfig(job, jobFileDir,         *)
(* namespace), for the cron jobs over the model's schedules and the        *)
(* interval jobs over the model's ids.                                     *)
(***************************************************************************)
ConfigJobs ==
  {[id |-> "tick", schedule |-> s.string, interval |-> 0, enabled |-> TRUE] :
     s \in {t \in Strings : t.chars \in ScheduleTexts}}
  \cup {[id |-> s.string, schedule |-> "", interval |-> interval, enabled |-> TRUE] :
          s \in {t \in Strings : t.chars \in ConfigIds}, interval \in {60000, 5000}}

\* generateJobPlistConfig is synchronous: it returns the config or throws.
StartConfig(p, job, namespace) ==
  LET call == [NoCall EXCEPT !.fn = "generateJobPlistConfig", !.jobs = <<job>>,
                              !.jobId = job.id, !.namespace = namespace]
      config == IF configThrows(job) THEN NoXml ELSE generateJobPlistConfig(job, namespace)
  IN
  /\ CanStart(p)
  /\ started' = started + 1
  /\ Set(p, ldDone([NewProc(p, call.fn)
                      EXCEPT !.ld = [NoLd EXCEPT !.call = call, !.xml = config]],
                   configError(job)))
  /\ UNCHANGED <<registry, agents, now, lockFile, stateLock, stateFile, serial>>

InitConfig == InitWith({NoLock}, {EmptyState}, {NoStateLock})

NextConfig ==
  \/ /\ started = 0
     /\ \E job \in ConfigJobs, namespace \in {NoNamespace, "pm"} :
          StartConfig(Solo, job, namespace)
  \/ LaunchdExit(Solo)

SpecConfig == InitConfig /\ [][NextConfig]_vars

\* generateJobPlistConfig has returned or thrown.
ConfigDone(r) == r.entry = "generateJobPlistConfig" /\ r.pc = "ld_done"

\* What a cron field stands for, from the parts it was written from: the
\* numbers of its list elements, of its ranges, and of its steps through
\* the range or, for "*/n", through the field's whole range.
FieldRange == <<0 .. 59, 0 .. 23, 1 .. 31, 1 .. 12, 0 .. 6>>
First(set) == CHOOSE v \in set : \A w \in set : v <= w

partNumbers(part, all) ==
  LET range == IF part.kind = "*" THEN all ELSE part.a .. part.b IN
  {v \in range : part.n = 0 \/ (v - First(range)) % part.n = 0}

fieldNumbers(field, i) == UNION {partNumbers(field[k], FieldRange[i]) : k \in DOMAIN field}

\* The cron expressions written as this schedule.
CronStrings == {[string |-> Str(cronText(expr)), expr |-> expr] : expr \in CronExprs}
Written(schedule) == {s.expr : s \in {t \in CronStrings : t.string = schedule}}

\* The records are the Cartesian product of the fields' numbers, wildcard
\* fields left out; a product of one is a single record, not an array.
IsProduct(calendar, expr) ==
  LET present == {i \in 1 .. 5 : expr[i] # <<Star>>}
      count == [i \in 1 .. 5 |->
                  IF i \in present THEN Cardinality(fieldNumbers(expr[i], i)) ELSE 1]
  IN
  /\ \A record \in calendar.records :
       /\ DOMAIN record = {CalendarKeys[i] : i \in present}
       /\ \A i \in present : record[CalendarKeys[i]] \in fieldNumbers(expr[i], i)
  /\ Cardinality(calendar.records) = count[1] * count[2] * count[3] * count[4] * count[5]
  /\ calendar.array = (Cardinality(calendar.records) # 1)

\* C21: cronToCalendarInterval gives one calendar record per element of the
\* Cartesian product of the expression's non-wildcard fields, each list,
\* range and step field expanded to its numbers, wildcard fields omitted;
\* "*/5 * * * *" gives 12 records and a product of one a single record.
C21_CartesianProduct ==
  \A p \in Procs :
    LET r == proc[p] IN
    ConfigDone(r) =>
      \A expr \in Written(r.ld.call.jobs[1].schedule) :
        r.err = "" /\ IsProduct(r.ld.xml.StartCalendarInterval, expr)

\* Minutes of the calendar, by minute, hour, day of month, month and day of
\* week.
Times ==
  {[Minute |-> m, Hour |-> h, Day |-> d, Month |-> mo, Weekday |-> wd] :
     m \in {0, 5, 7, 30}, h \in {0, 9}, d \in {1, 11}, mo \in {1, 6}, wd \in {0, 1}}

\* launchd starts the job at a minute that agrees with every key of one of
\* the records; a missing key is a wildcard.
matches(record, t) == \A key \in DOMAIN record : record[key] = t[key]
launchdFires(calendar, t) == \E record \in calendar.records : matches(record, t)

\* The cron expression fires at a minute that lies in every field.  When
\* day of month and day of week are both restricted cron fires on either,
\* which no single record says: those expressions are left aside.
cronFires(expr, t) == \A i \in 1 .. 5 : t[CalendarKeys[i]] \in fieldNumbers(expr[i], i)
OneDayField(expr) == expr[3] = <<Star>> \/ expr[5] = <<Star>>

\* C22: for every five-field cron expression the schedule model accepts and
\* every minute t, the calendar records of the job's config match t exactly
\* when the cron expression fires at t.
C22_SameFireTimes ==
  \A p \in Procs :
    LET r == proc[p] IN
    ConfigDone(r) =>
      \A expr \in Written(r.ld.call.jobs[1].schedule) :
        OneDayField(expr) =>
          /\ r.err = ""
          /\ \A t \in Times :
               launchdFires(r.ld.xml.StartCalendarInterval, t) <=> cronFires(expr, t)

\* C23: generateJobPlistConfig throws, producing no config, for every job
\* whose id validateJobId rejects (empty, over 100 characters, with a dot,
\* slash, backslash, space or another forbidden character, or not starting
\* with a letter, digit or underscore), and returns a config for an id of
\* letters, digits, underscores and hyphens.
C23_InvalidIdRejected ==
  \A p \in Procs :
    LET r == proc[p]
        job == r.ld.call.jobs[1]
    IN
    ConfigDone(r) /\ job.schedule = "" /\ job.interval >= MIN_INTERVAL_MS =>
      IF validateJobId(job.id) # "" THEN r.err # "" /\ r.ld.xml = NoXml
      ELSE r.err = "" /\ r.ld.xml.Label = getJobLabel(job.id, r.ld.call.namespace)

(***************************************************************************)
(* SpecParse: one call of parsePlistFilename on the name of a file in      *)
(* LaunchAgents.                                                           *)
(***************************************************************************)
StringsOf(texts) == {s.string : s \in {t \in Strings : t.chars \in texts}}

StartParse(p, filename) ==
  LET call == [NoCall EXCEPT !.fn = "parsePlistFilename", !.file = filename]
      parsed == parsePlistFilename(filename)
      result == IF parsed = NoParse THEN [NoItem EXCEPT !.kind = "null"]
                ELSE [NoItem EXCEPT !.kind = "parsed", !.jobId = parsed.jobId,
                                    !.namespace = parsed.namespace]
  IN
  /\ CanStart(p)
  /\ started' = started + 1
  /\ Set(p, ldDone([NewProc(p, call.fn)
                      EXCEPT !.ld = [NoLd EXCEPT !.call = call, !.item = result]], ""))
  /\ UNCHANGED <<registry, agents, now, lockFile, stateLock, stateFile, serial>>

InitParse == InitWith({NoLock}, {EmptyState}, {NoStateLock})

NextParse ==
  \/ /\ started = 0
     /\ \E filename \in StringsOf(FileTexts) : StartParse(Solo, filename)
  \/ LaunchdExit(Solo)

SpecParse == InitParse /\ [][NextParse]_vars

\* The ids validateJobId accepts and the namespaces, "" for none.
Labelled ==
  {[jobId |-> jobId, namespace |-> namespace,
    filename |-> getJobLabel(jobId, namespace) \o ".plist"] :
     jobId \in StringsOf(ValidIds), namespace \in StringsOf(NamespaceTexts)}

\* C24: parsePlistFilename(getJobLabel(id, ns) + '.plist') is
\* {namespace: ns, jobId: id} for every valid id and every namespace or
\* none, and parsePlistFilename is null for every other file name, the
\* wake checker's plist and 'com.cron-burgundy.job.plist' among them.
C24_ParseInvertsLabel ==
  \A p \in Procs :
    LET r == proc[p]
        labels == {l \in Labelled : l.filename = r.ld.call.file}
    IN
    r.entry = "parsePlistFilename" /\ r.pc = "ld_done" =>
      /\ \A l \in labels :
           /\ r.ld.item.kind = "parsed"
           /\ r.ld.item.jobId = l.jobId
           /\ r.ld.item.namespace = l.namespace
      /\ labels = {} => r.ld.item.kind = "null"

(***************************************************************************)
(* registry.js: registerFile and unregisterFile.  STATE_DIR exists, so the *)
(* awaited mkdir of saveRegistry is part of the write that follows it.     *)
(***************************************************************************)
RegistryEntries == {"registerFile", "unregisterFile"}

\* path.resolve(filePath) in the directory the command runs in.
Cwd == "/w"
RelativePaths == {"jobs.js"}
FilePaths == {"/w/jobs.js", "/w/other.js"} \cup RelativePaths
resolve(filePath) == IF filePath \in RelativePaths THEN Cwd \o "/" \o filePath ELSE filePath

\* migrateRegistry(JSON.parse(data)).files: entries of the old format get
\* namespace null.
migrateRegistry(data) ==
  IF Len(data.files) > 0 /\ ~data.legacy THEN data.files
  ELSE [i \in DOMAIN data.files |-> [path |-> data.files[i].path, namespace |-> NoNamespace]]

\* getRegistry's answer, for a file that is absent or parses.
getRegistry(file) == IF file.exists THEN migrateRegistry(file) ELSE <<>>

\* files.findIndex(f => f.path === absPath), from 1; 0 for -1.
findIndex(files, absPath) ==
  IF \E i \in DOMAIN files : files[i].path = absPath
    THEN CHOOSE i \in DOMAIN files :
           files[i].path = absPath /\ \A j \in 1 .. i - 1 : files[j].path # absPath
  ELSE 0

\* Variant: registerFile pushes the entry without looking for the path.
registeredAgain(files, absPath, namespace) ==
  Append(files, [path |-> absPath, namespace |-> namespace])

\* registerFile: the entry's namespace is set, or the entry is pushed.
registered(files, absPath, namespace) ==
  LET existingIdx == findIndex(files, absPath) IN
  IF existingIdx # 0 THEN [files EXCEPT ![existingIdx].namespace = namespace]
  ELSE Append(files, [path |-> absPath, namespace |-> namespace])

\* unregisterFile: files.splice(idx, 1).
unregistered(files, absPath) ==
  LET idx == findIndex(files, absPath) IN
  SubSeq(files, 1, idx - 1) \o SubSeq(files, idx + 1, Len(files))

\* The calls sync(jobs, projectPath, namespace) makes before the directory
\* listing: installJob for the enabled jobs, uninstallJob for the others.
syncQueue(call) ==
  LET enabled == SelectSeq(call.jobs, isEnabled)
      disabled == SelectSeq(call.jobs, LAMBDA j : ~isEnabled(j))
  IN
  [i \in 1 .. Len(enabled) |-> InstallItem(enabled[i], call.namespace)]
    \o [i \in 1 .. Len(disabled) |-> UninstallItem(disabled[i].id, call.namespace)]
    \o <<ListItem>>

\* registerFile returns: to the caller, or to the sync command, which goes
\* on with sync(jobs, projectPath, namespace).
registerFileReturns(r) ==
  IF r.entry = "sync"
    THEN ldNext([r EXCEPT !.ld.queue = syncQueue(r.ld.call), !.ld.before = agents])
  ELSE ldDone(r, "")

\* registerFile(filePath, namespace) or unregisterFile(filePath) is called.
StartRegistry(p, call) ==
  /\ CanStart(p)
  /\ started' = started + 1
  /\ Set(p, [NewProc(p, call.fn) EXCEPT !.ld.call = call, !.pc = "getRegistry"])
  /\ UNCHANGED <<registry, agents, now, lockFile, stateLock, stateFile, serial>>

\* getRegistry (fs.readFile, JSON.parse); then 'exists' or 'not_found', or
\* saveRegistry.
GetRegistry(p) ==
  LET r == proc[p]
      files == getRegistry(registry)
      found == findIndex(files, resolve(r.ld.call.file))
      read == [r EXCEPT !.reg = files]
  IN
  /\ r.pc = "getRegistry"
  /\ Set(p, IF registry.exists /\ ~registry.parse THEN ldDone(r, "SyntaxError")
            ELSE IF r.entry # "unregisterFile" THEN
              IF found # 0 /\ files[found].namespace = r.ld.call.namespace
                THEN registerFileReturns([read EXCEPT !.outcome = "exists"])
              ELSE [read EXCEPT !.pc = "saveRegistry",
                                !.outcome = IF found # 0 THEN "updated" ELSE "added"]
            ELSE IF found = 0 THEN ldDone([read EXCEPT !.outcome = "not_found"], "")
            ELSE [read EXCEPT !.pc = "saveRegistry", !.outcome = "removed"])
  /\ UNCHANGED <<registry, agents, now, lockFile, stateLock, stateFile, serial, started>>

\* saveRegistry(registry): fs.writeFile of the changed entries.
SaveRegistry(p) ==
  LET r == proc[p]
      absPath == resolve(r.ld.call.file)
  IN
  /\ r.pc = "saveRegistry"
  /\ registry' = Registry(IF r.entry # "unregisterFile"
                            THEN registered(r.reg, absPath, r.ld.call.namespace)
                          ELSE unregistered(r.reg, absPath))
  /\ Set(p, registerFileReturns(r))
  /\ UNCHANGED <<agents, now, lockFile, stateLock, stateFile, serial, started>>

(***************************************************************************)
(* SpecRegistry: registerFile and unregisterFile calls, one after the      *)
(* other, over the registry an earlier command has left.                   *)
(***************************************************************************)
RegistryCalls ==
  {[NoCall EXCEPT !.fn = "registerFile", !.file = f, !.namespace = namespace] :
     f \in FilePaths, namespace \in {NoNamespace, "pm", "am"}}
  \cup {[NoCall EXCEPT !.fn = "unregisterFile", !.file = f] : f \in FilePaths}

LeftRegistries ==
  {NoRegistry, GarbledRegistry, Registry(<<>>),
   Registry(<<[path |-> "/w/jobs.js", namespace |-> "pm"]>>),
   Registry(<<[path |-> "/w/other.js", namespace |-> NoNamespace],
              [path |-> "/w/jobs.js", namespace |-> "am"]>>),
   LegacyRegistry(<<"/w/jobs.js">>), LegacyRegistry(<<"/w/other.js", "/w/jobs.js">>)}

InitRegistry ==
  /\ now = StartNow
  /\ lockFile = [q \in Qids |-> NoLock]
  /\ stateLock = NoStateLock
  /\ stateFile = EmptyState
  /\ serial = stateFile
  /\ started = 0
  /\ agents = NoAgents
  /\ registry \in LeftRegistries
  /\ proc = [p \in Procs |-> IdleProc]

NextRegistry ==
  \/ \E call \in RegistryCalls : StartRegistry(Solo, call)
  \/ GetRegistry(Solo)
  \/ SaveRegistry(Solo)
  \/ LaunchdExit(Solo)

SpecRegistry == InitRegistry /\ [][NextRegistry]_vars

\* No path twice.
UniquePaths(files) == \A i, j \in DOMAIN files : files[i].path = files[j].path => i = j

\* C25: after any sequence of registerFile and unregisterFile calls the
\* registry holds each path at most once, in the order of registration;
\* registerFile returns 'added' iff the path was absent (the entry goes to
\* the end), 'updated' iff it was there with another namespace (only that
\* entry's namespace changes) and 'exists' iff it was there with the same
\* namespace (nothing changes); unregisterFile returns 'removed' iff the
\* path was there (only that entry goes) and 'not_found' otherwise.
C25_RegistryCalls ==
  /\ UniquePaths(getRegistry(registry))
  /\ \A p \in Procs :
       LET r == proc[p]
           before == r.reg
           after == getRegistry(registry)
           absPath == resolve(r.ld.call.file)
           held == {i \in DOMAIN before : before[i].path = absPath}
       IN
       r.entry \in RegistryEntries /\ r.pc = "ld_done" /\ r.err = "" =>
         IF r.entry = "registerFile" THEN
           /\ r.outcome = "added" <=> held = {}
           /\ r.outcome = "updated" <=>
                \E i \in held : before[i].namespace # r.ld.call.namespace
           /\ r.outcome = "exists" <=>
                \E i \in held : before[i].namespace = r.ld.call.namespace
           /\ r.outcome = "added" =>
                after = Append(before, [path |-> absPath, namespace |-> r.ld.call.namespace])
           /\ r.outcome = "updated" =>
                \E i \in held : after = [before EXCEPT ![i].namespace = r.ld.call.namespace]
           /\ r.outcome = "exists" => after = before
         ELSE
           /\ r.outcome = "removed" <=> held # {}
           /\ r.outcome = "not_found" <=> held = {}
           /\ r.outcome = "removed" =>
                \E i \in held : after = [k \in 1 .. Len(before) - 1 |->
                                           IF k < i THEN before[k] ELSE before[k + 1]]
           /\ r.outcome = "not_found" => after = before

\* A second call has changed the namespace of a path the first call added
\* behind another entry.
C25_Witness ==
  \E p \in Procs :
    LET r == proc[p] IN
    /\ r.entry = "registerFile" /\ r.pc = "ld_done" /\ r.outcome = "updated"
    /\ \E call \in RegistryCalls :
         /\ r.prev = call
         /\ call.fn = "registerFile" /\ resolve(call.file) = resolve(r.ld.call.file)
    /\ Len(registry.files) = 2

(***************************************************************************)
(* Lock release on every exit path.                                        *)
(***************************************************************************)
\* The processing of a job by runJobNow or checkMissed is over and it had
\* been granted the job's lock.
DoneWithLock(r) ==
  r.pc = "jobEnd" /\ r.entry \in {"runJobNow", "checkMissed"} /\ r.acquired

\* C26: when a runJobNow invocation or a checkMissed iteration that acquired
\* the job lock returns or throws, it has called releaseLock once: the lock
\* file is gone and the id is no longer in activeLocks, whether job.run
\* returned, job.run threw, or markRun threw.
C26_LockReleased ==
  \A p \in Procs :
    LET r == proc[p] IN
    DoneWithLock(r) =>
      /\ r.released = 1
      /\ ~r.held
      /\ r.job.qid \notin r.active
      /\ ~lockFile[r.job.qid].exists

\* A job whose operation returned and whose markRun threw ends with its
\* lock released.
C26_Witness ==
  \E p \in Procs :
    LET r == proc[p] IN
    /\ DoneWithLock(r)
    /\ r.op = "ok"
    /\ r.err # ""
    /\ r.released = 1
    /\ ~lockFile[r.job.qid].exists

(***************************************************************************)
(* SpecDue: one runAllDue call over a list of jobs that are enabled or     *)
(* not, paused or not, due or not.                                         *)
(***************************************************************************)
\* state.json: empty; "a" run just now; everything paused and "a" run just
\* now; "a" paused and never run; unparseable.
DueStates ==
  {EmptyState,
   [EmptyState EXCEPT !.last["a"] = StartNow],
   [EmptyState EXCEPT !.last["a"] = StartNow, !.paused = AllPaused],
   [EmptyState EXCEPT !.paused = PausedList(<<"a">>)],
   CorruptState}

InitDue ==
  InitWith({NoLock, LockRecord(OtherPid, StartNow)}, DueStates, LeftStateLocks)

NextDue ==
  \/ started = 0 /\ \E jobs \in JobLists : StartRunAllDue(Solo, jobs)
  \/ UpdateStep(Solo) \/ RunStep(Solo)
  \/ Tick

SpecDue == InitDue /\ [][NextDue]_vars

\* runIfDue returned 'disabled', 'paused' or 'skipped' for the job.
Gated(r) == r.outcome \in {"disabled", "paused", "skipped"}

\* C27: runAllDue tests enabled, then paused, then due.  A disabled job is
\* reported as disabled even if it is paused or due, an enabled paused job
\* as paused even if it is not due, an enabled unpaused job that is not due
\* as skipped; a job reported as disabled, paused or skipped has not been
\* executed, and no step of its processing changes state.json or a lock file.
C27_GateOrder ==
  /\ [](\A p \in Procs :
          LET r == proc[p]
              paused == isPaused(r.before, r.job.qid)
              lastRun == getLastRun(r.before, r.job.qid)
          IN
          (r.entry = "runAllDue" /\ r.pc = "jobEnd") =>
            /\ r.outcome = "disabled" <=> ~isEnabled(r.job)
            /\ (~r.before.corrupt /\ isEnabled(r.job) /\ paused) => r.outcome = "paused"
            /\ r.outcome = "paused" => (~r.before.corrupt /\ isEnabled(r.job) /\ paused)
            /\ (~r.before.corrupt /\ isEnabled(r.job) /\ ~paused
                  /\ ~shouldRun(r.job, lastRun, now)) => r.outcome = "skipped"
            /\ r.outcome = "skipped" =>
                 (~r.before.corrupt /\ isEnabled(r.job) /\ ~paused
                    /\ ~shouldRun(r.job, lastRun, r.t0))
            /\ Gated(r) =>
                 /\ EndsWithJob(r, r.outcome)
                 /\ r.execs = 0 /\ r.marks = 0 /\ r.err = ""
                 /\ stateFile = r.before
                 /\ ~r.acquired /\ r.released = 0 /\ r.found = NoLock)
  /\ [][\A p \in Procs :
          (proc[p].entry = "runAllDue" /\ proc'[p].execs = 0)
            => UNCHANGED <<lockFile, stateFile>>]_vars

\* runAllDue has reported "c", which is disabled, paused and due, as
\* disabled, and then "a", which is paused and not due, as paused.
C27_Witness ==
  \E p \in Procs :
    LET r == proc[p] IN
    /\ r.entry = "runAllDue" /\ r.pc = "jobEnd" /\ r.idx = 2
    /\ r.res.disabled = <<"c">>
    /\ isPaused(stateFile, "c") /\ shouldRun(JobC, getLastRun(stateFile, "c"), now)
    /\ r.job.qid = "a" /\ r.outcome = "paused" /\ r.res.paused = <<"a">>
    /\ ~shouldRun(r.job, getLastRun(stateFile, "a"), now)
    /\ lockFile["a"].exists

(***************************************************************************)
(* SpecFault: concurrent updateState calls, some of which fail.            *)
(***************************************************************************)
FaultUpdates == {MarkRunUpd("a", JobA.interval), PauseUpd("b")}

StateFaults == {"writeFile", "rename"}

InitFault == InitWith({NoLock}, {EmptyState, CorruptState}, LeftStateLocks)

NextFault ==
  \/ \E p \in Procs : \E u \in FaultUpdates : StartUpdate(p, u)
  \/ \E p \in Procs : UpdateStep(p) \/ Finish(p)
  \/ \E p \in Procs : \E kind \in StateFaults : Fault(p, kind)
  \/ Tick

SpecFault == InitFault /\ [][NextFault]_vars

\* The updateState call of the process has failed: the error is on its way
\* to the caller.
UpdateFailed(r) == r.entry \in {"markRun", "pause", "resume"} /\ r.err # ""

\* The process takes this step.
Steps(p) == proc'[p] # proc[p]

\* No step of a failing updateState call writes state.json: the file
\* changes only in the rename of a call that has not failed.
FailedUpdateWritesNothing ==
  [][\A p \in Procs :
       (Steps(p) /\ (UpdateFailed(proc[p]) \/ UpdateFailed(proc'[p])))
         => stateFile' = stateFile]_vars

\* The call raises, and a state lock the caller created is gone when it does.
FailedUpdateRaises ==
  \A p \in Procs :
    LET r == proc[p] IN
    (r.entry \in {"markRun", "pause", "resume"} /\ r.pc = "jobEnd") =>
      /\ r.outcome = "threw" <=> r.err # ""
      /\ r.outcome = "ok" <=> r.err = ""
      /\ r.err \in {"", "timeout", "corrupt", "ENOSPC", "EPERM"}
      /\ stateFile.corrupt => r.err \in {"timeout", "corrupt"}
      /\ r.err # "" => ~(stateLock.exists /\ stateLock.pid = p)

\* A failing call leaves a state lock that another process holds in place.
FailedUpdateKeepsOthersLock ==
  [][\A p, q \in Procs :
       (p # q /\ Steps(p) /\ UpdateFailed(proc[p])
          /\ HoldsStateLock(q) /\ stateLock.exists /\ stateLock.pid = q)
         => stateLock' = stateLock]_vars

\* C28: when updateState fails (state-lock timeout, unparseable state.json,
\* the temp file's write or the rename rejecting), the call raises an error,
\* no step of it changes state.json, the state lock it created is released,
\* and it does not remove a state lock that another process holds.
C28_FailedUpdate ==
  /\ []FailedUpdateRaises
  /\ FailedUpdateWritesNothing
  /\ FailedUpdateKeepsOthersLock

(***************************************************************************)
(* The state lock and the job lock around job.run.                         *)
(***************************************************************************)
\* The process is inside updateState (markRun's call of it).
InUpdate(p) ==
  proc[p].pc \in {"acquireStateLock", "asl_stat", "asl_unlink", "asl_write"}
    \/ HoldsStateLock(p)

\* state.lock is the file this process created.
OwnsStateLock(p) == stateLock.exists /\ stateLock.pid = p

\* While job.run executes, the process is outside updateState and state.lock
\* is not a file it created; markRun is called only after job.run returned.
StateLockOutsideRun ==
  \A p \in Procs :
    LET r == proc[p] IN
    r.entry \in RunnerEntries =>
      /\ InRun(p) => (~OwnsStateLock(p) /\ r.upd = NoUpd /\ r.marks = 0)
      /\ InUpdate(p) => (r.op = "ok" /\ r.execs = 1 /\ r.upd.op = "markRun")
      /\ OwnsStateLock(p) => InUpdate(p)

\* The job lock is taken before job.run and given back after markRun.
JobLockAcrossRun ==
  \A p \in Procs :
    LET r == proc[p] IN
    (r.entry \in RunnerEntries /\ (InRun(p) \/ InUpdate(p))) =>
      (r.held /\ r.released = 0 /\ r.job.qid \in r.active)

\* C29: no process holds the state lock while its job.run is executing: the
\* state lock is taken and released inside markRun, which the runner calls
\* only after job.run has returned, whereas the job lock is held from before
\* job.run until after markRun.
C29_StateLockNotAcrossRun == StateLockOutsideRun /\ JobLockAcrossRun

(***************************************************************************)
(* SpecLog: one runJobNow invocation during which the log files may        *)
(* become unwritable.                                                      *)
(***************************************************************************)
InitLog == InitWith(LeftLocks, LeftStates \cup {CorruptState}, LeftStateLocks)

NextLog ==
  \/ started = 0 /\ \E job \in JobPool : \E scheduled \in BOOLEAN :
                      StartRunJobNow(Solo, job, scheduled)
  \/ Fault(Solo, "appendFile")
  \/ LockStep(Solo) \/ UpdateStep(Solo) \/ RunStep(Solo)
  \/ Tick

SpecLog == InitLog /\ [][NextLog]_vars

\* C30: when job.run fails in runJobNow, the error that reaches the caller
\* is job.run's own error, also when writing the failure lines to the logs
\* or sending the notification fails, and the job lock has been released.
C30_OriginalErrorSurvives ==
  \A p \in Procs :
    LET r == proc[p] IN
    (r.entry = "runJobNow" /\ r.pc = "jobEnd" /\ r.op = "threw") =>
      /\ r.outcome = "threw"
      /\ r.err = JobError
      /\ r.released = 1 /\ ~r.held /\ r.job.qid \notin r.active
      /\ ~lockFile[r.job.qid].exists

(***************************************************************************)
(* SpecExit: one invocation that may be terminated by a signal at any      *)
(* point.                                                                  *)
(***************************************************************************)
InitExit == InitWith(LeftLocks, {EmptyState}, LeftStateLocks)

NextExit ==
  \/ started = 0 /\ \E job \in JobPool : \E scheduled \in BOOLEAN :
                      StartRunJobNow(Solo, job, scheduled)
  \/ started = 0 /\ \E jobs \in JobLists : StartCheckMissed(Solo, jobs)
  \/ started = 0 /\ StartAcquireLock(Solo, "a", 0)
  \/ LockStep(Solo) \/ UpdateStep(Solo) \/ RunStep(Solo)
  \/ Signal(Solo)

SpecExit == InitExit /\ [][NextExit]_vars

\* The process ends in this step.
Exits(p) == proc[p].pc # "idle" /\ proc'[p].pc = "idle"

Reclaimable(f, staleLockMs) ==
  \/ ~f.parse
  \/ now - f.mtime > staleLockMs
  \/ f.pid # NoPid /\ probe(f.pid) = "ESRCH"

\* C32: the file acquireLock deletes is, at the moment of the unlink,
\* unparseable, older than the stale threshold or owned by a process that
\* does not exist, never a fresh lock of a live process; and of the
\* processes that reclaim the same orphaned lock at the same time at most
\* one is granted it.
C32_DeletesOnlyStale ==
  /\ [][\A p \in Procs :
          LET r == proc[p]  f == lockFile[r.job.qid] IN
          (r.pc = "isLocked_unlink" /\ Steps(p) /\ f.exists)
            => Reclaimable(f, r.staleLockMs)]_vars
  /\ [](\A p, q \in Procs :
          (proc[p].held /\ proc[q].held /\ proc[p].job.qid = proc[q].job.qid) => p = q)

(***************************************************************************)
(* SpecStale: concurrent runJobNow invocations on job "a", one of which    *)
(* may still be running when its lock has passed the stale threshold.      *)
(***************************************************************************)
\* Date.now() moves past getStaleLockMs(JobA) in one step: the operation
\* runs long, or the machine sleeps.
Outlast ==
  /\ now = StartNow
  /\ now' = now + getStaleLockMs(JobA) + TICK_MS
  /\ UNCHANGED <<registry, agents, lockFile, stateLock, stateFile, proc, serial, started>>

InitStale == InitWith({NoLock}, {EmptyState}, {NoStateLock})

NextStale ==
  \/ \E p \in Procs : \E scheduled \in BOOLEAN : StartRunJobNow(p, JobA, scheduled)
  \/ \E p \in Procs : LockStep(p) \/ UpdateStep(p) \/ RunStep(p)
  \/ \E p \in Procs : Signal(p)
  \/ Outlast

SpecStale == InitStale /\ [][NextStale]_vars

\* The process is in releaseLock's unlink, or ends with ids in activeLocks.
Unlinks(p) ==
  \/ proc[p].pc = "releaseLock" /\ proc'[p].pc = "jobEnd"
  \/ Exits(p) /\ proc[p].active # {}

\* C33: releaseLock and the exit hook remove only a lock file the calling
\* process wrote: when the file at the path holds another process's record,
\* the step leaves it in place, so the fresh lock of a process that is
\* executing the job stays on disk until that process removes it.
C33_ReleasesOwnLockOnly ==
  /\ [][\A p \in Procs : \A q \in Qids :
          (Unlinks(p) /\ lockFile[q].exists /\ lockFile[q].pid # p)
            => lockFile'[q] = lockFile[q]]_vars
  /\ [][\A p \in Procs :
          LET f == lockFile[proc[p].job.qid] IN
          (InRun(p) /\ f.exists /\ f.pid = p /\ ~Steps(p)
             /\ ~Reclaimable(f, proc[p].staleLockMs))
            => lockFile'[proc[p].job.qid] = f]_vars

(***************************************************************************)
(* Concurrent wake checks.                                                 *)
(***************************************************************************)
\* The process is in checkMissed and has started the job's operation, which
\* has not thrown.
Executed(p) ==
  proc[p].entry = "checkMissed" /\ proc[p].execs = 1 /\ proc[p].op # "threw"

\* C34: of two concurrent checkMissed invocations over the same overdue job
\* at most one executes the operation: a process enters job.run only when
\* no other invocation has executed it, and only when state.json, with the
\* winner's markRun in it, still shows the job due.
C34_MissedOnce ==
  [][\A p \in Procs :
       (proc[p].entry = "checkMissed" /\ proc[p].execs = 0 /\ proc'[p].execs = 1)
         => /\ \A q \in Procs \ {p} :
                 proc[q].job.qid = proc[p].job.qid => ~Executed(q)
            /\ ~stateFile.corrupt
            /\ shouldRun(proc[p].job, getLastRun(stateFile, proc[p].job.qid), now)]_vars

(***************************************************************************)
(* The registry's job files and the commands that name a job.              *)
(***************************************************************************)
\* `jobs` as the registered files export it.
jobsIn(path) ==
  IF path = "/w/jobs.js" THEN <<[JobPm EXCEPT !.qid = ""]>>
  ELSE IF path = "/w/other.js"
    THEN <<[JobPm EXCEPT !.id = "beat", !.qid = "", !.enabled = FALSE], [JobPm EXCEPT !.qid = ""]>>
  ELSE <<>>

\* The namespaces registry.json assigns in this development.
FileNamespaces == Namespaces \cup {"am"}
BareIds == LaunchdIds

\* parseQualifiedId: the id is split at its first "/"; without one the
\* namespace is null.
parseQualifiedId(id) ==
  IF \E ns \in FileNamespaces \ {NoNamespace}, jobId \in BareIds : id = ns \o "/" \o jobId
    THEN CHOOSE q \in [namespace : FileNamespaces \ {NoNamespace}, jobId : BareIds] :
           id = q.namespace \o "/" \o q.jobId
  ELSE [namespace |-> NoNamespace, jobId |-> id]

\* findJob(jobId) over the files of the registry: the first job whose bare
\* id matches, in the namespace asked for if one is given, with
\* _qualifiedId set; NoJob for null.
findJob(files, jobId) ==
  LET target == parseQualifiedId(jobId)
      holds(i) ==
        /\ target.namespace # NoNamespace => files[i].namespace = target.namespace
        /\ \E k \in DOMAIN jobsIn(files[i].path) : jobsIn(files[i].path)[k].id = target.jobId
      hits == {i \in DOMAIN files : holds(i)}
  IN
  IF hits = {} THEN NoJob
  ELSE LET i == CHOOSE h \in hits : \A g \in hits : h <= g
           job == CHOOSE j \in {jobsIn(files[i].path)[k] : k \in DOMAIN jobsIn(files[i].path)} :
                    j.id = target.jobId
       IN [job EXCEPT !.qid = qualifyJobId(job.id, files[i].namespace)]

\* `cron-burgundy pause <name>` and `unpause <name>`: findJob(name), exit 1
\* when it is null, else pause(name) or resume(name).
StartPauseCommand(p, op, name) ==
  IF findJob(getRegistry(registry), name) = NoJob
    THEN /\ CanStart(p)
         /\ started' = started + 1
         /\ Set(p, Exited(NewProc(p, op)))
         /\ UNCHANGED <<registry, agents, now, lockFile, stateLock, stateFile, serial>>
  ELSE StartUpdate(p, IF op = "pause" THEN PauseUpd(name) ELSE ResumeUpd(name))

\* `cron-burgundy run <name> [--scheduled]`: runJobNow on findJob's job.
StartRunCommand(p, name, scheduled) ==
  LET job == findJob(getRegistry(registry), name) IN
  /\ job # NoJob
  /\ scheduled => isEnabled(job)
  /\ StartRunJobNow(p, job, scheduled)

(***************************************************************************)
(* SpecCommand: pause, unpause and run commands, one after the other.      *)
(***************************************************************************)
CommandNames == {"tick", "am/tick", "pm/tick", "beat"}

CommandRegistries ==
  {Registry(<<[path |-> "/w/jobs.js", namespace |-> NoNamespace]>>),
   Registry(<<[path |-> "/w/jobs.js", namespace |-> "am"]>>),
   Registry(<<[path |-> "/w/other.js", namespace |-> "pm"],
              [path |-> "/w/jobs.js", namespace |-> "am"]>>)}

InitCommand ==
  /\ now = StartNow
  /\ \E f \in {NoLock, LockRecord(DeadPid, StartNow)} :
       lockFile = [q \in Qids |-> IF q = "am/tick" THEN f ELSE NoLock]
  /\ stateLock \in LeftStateLocks
  /\ stateFile = EmptyState
  /\ serial = stateFile
  /\ started = 0
  /\ agents = NoAgents
  /\ registry \in CommandRegistries
  /\ proc = [p \in Procs |-> IdleProc]

NextCommand ==
  \/ \E name \in CommandNames : \E op \in {"pause", "resume"} : StartPauseCommand(Solo, op, name)
  \/ \E name \in CommandNames : \E scheduled \in BOOLEAN : StartRunCommand(Solo, name, scheduled)
  \/ LockStep(Solo) \/ UpdateStep(Solo) \/ RunStep(Solo)
  \/ Tick

SpecCommand == InitCommand /\ [][NextCommand]_vars

\* C35: after `pause <name>` has succeeded for a name findJob resolves to a
\* job J, J is paused under its qualified id, the key the runner checks,
\* and a scheduled runJobNow of J that follows is skipped as paused.
C35_PauseByName ==
  \A p \in Procs : \A name \in CommandNames :
    LET r == proc[p]
        J == findJob(getRegistry(registry), name)
    IN
    (J # NoJob /\ r.prev = PauseUpd(name)) =>
      /\ r.pc = "idle" => isPaused(stateFile, J.qid)
      /\ (r.entry = "runJobNow" /\ r.sched /\ r.job.qid = J.qid /\ r.pc = "jobEnd")
           => (r.outcome = "paused" /\ r.execs = 0)

(***************************************************************************)
(* The sync command.                                                       *)
(***************************************************************************)
\* The file's jobs as launchd.js reads them (interval jobs, no schedule).
exported(path) ==
  [i \in DOMAIN jobsIn(path) |->
     [id |-> jobsIn(path)[i].id, schedule |-> "", interval |-> jobsIn(path)[i].interval,
      enabled |-> jobsIn(path)[i].enabled]]

\* `cron-burgundy sync <path> [--namespace ns]`: registerFile(absPath,
\* namespace), then sync(jobs, projectPath, namespace); without a path,
\* loadAllJobs and sync of every source, file "" standing for no argument.
StartSyncCommand(p, filePath, namespace) ==
  LET call == [NoCall EXCEPT !.fn = IF filePath = "" THEN "syncAll" ELSE "sync",
                             !.file = filePath, !.namespace = namespace,
                             !.jobs = exported(resolve(filePath))]
  IN
  /\ CanStart(p)
  /\ filePath = "" => namespace = NoNamespace
  /\ started' = started + 1
  /\ Set(p, IF filePath = ""
              THEN [NewProc(p, "sync") EXCEPT !.ld.call = call, !.pc = "sync_source",
                                              !.reg = getRegistry(registry)]
            ELSE [NewProc(p, "sync") EXCEPT !.ld.call = call, !.pc = "getRegistry"])
  /\ UNCHANGED <<registry, agents, now, lockFile, stateLock, stateFile, serial>>

\* The sync command without a path: the loop over the sources takes the
\* next source, or the command returns.
SyncSource(p) ==
  LET r == proc[p]
      entry == r.reg[r.idx + 1]
      call == [r.ld.call EXCEPT !.jobs = exported(entry.path), !.namespace = entry.namespace]
  IN
  /\ r.pc = "sync_source"
  /\ Set(p, IF r.idx < Len(r.reg)
              THEN ldNext([r EXCEPT !.idx = @ + 1, !.ld.call = call,
                                    !.ld.queue = syncQueue(call)])
            ELSE ldDone(r, ""))
  /\ UNCHANGED <<registry, agents, now, lockFile, stateLock, stateFile, serial, started>>

(***************************************************************************)
(* SpecSync: sync commands, one after the other, from an empty registry    *)
(* and an empty LaunchAgents directory.                                    *)
(***************************************************************************)
InitSync == InitWith({NoLock}, {EmptyState}, {NoStateLock})

NextSync ==
  \/ \E f \in {"", "jobs.js", "/w/other.js"} : \E namespace \in Namespaces :
       StartSyncCommand(Solo, f, namespace)
  \/ GetRegistry(Solo) \/ SaveRegistry(Solo) \/ SyncSource(Solo)
  \/ LaunchdStep(Solo)
  \/ AcquireStateLock(Solo) \/ AslWrite(Solo) \/ UsGetState(Solo)
  \/ AtomicWriteFileWrite(Solo) \/ AtomicWriteFileRename(Solo)
  \/ ReleaseStateLock(Solo)

SpecSync == InitSync /\ [][NextSync]_vars

\* The qualified id the installed plist hands to `run --scheduled`.
PlistTarget(f) == agents[f].xml.ProgramArguments[3]

\* C36: after any sequence of sync commands, every installed job plist
\* names a qualified id that findJob resolves to an enabled job of a
\* registered file; no plist of a namespace the file had before is left.
C36_PlistsResolve ==
  (proc[Solo].pc = "idle" /\ proc[Solo].prev # NoUpd) =>
    \A f \in JobPlists :
      agents[f].exists =>
        LET job == findJob(getRegistry(registry), PlistTarget(f)) IN
        job # NoJob /\ job.qid = PlistTarget(f) /\ isEnabled(job)

(***************************************************************************)
(* SpecCrash: markRun, pause and resume calls, one after the other, over   *)
(* a state.lock that a crashed process left LOCK_STALE_MS ago.  A process  *)
(* that is not blocked takes its next step; the clock need not advance.    *)
(***************************************************************************)
InitCrash == InitWith({NoLock}, {EmptyState}, {StateLockRecord(DeadPid, EdgeTime)})

NextCrash ==
  \/ \E u \in Updates : StartUpdate(Solo, u)
  \/ UpdateStep(Solo)
  \/ Finish(Solo)
  \/ Tick

SpecCrash ==
  InitCrash /\ [][NextCrash]_vars /\ WF_vars(UpdateStep(Solo)) /\ WF_vars(Finish(Solo))

\* state.lock is the crashed process's, and older than LOCK_STALE_MS.
CrashedLockStale ==
  stateLock.exists /\ stateLock.pid = DeadPid /\ now - stateLock.mtime > LOCK_STALE_MS

\* C37: a state lock left by a crashed process does not block forever: an
\* updateState that starts once the lock is older than LOCK_STALE_MS
\* deletes it, acquires the lock and succeeds.
C37_CrashedLockRecovered ==
  \A p \in Procs :
    /\ (proc[p].pc = "acquireStateLock" /\ CrashedLockStale)
         ~> (stateLock.exists /\ stateLock.pid = p)
    /\ (proc[p].pc = "acquireStateLock" /\ CrashedLockStale)
         ~> (proc[p].pc = "jobEnd" /\ proc[p].err = "" /\ proc[p].outcome = "ok"
               /\ stateFile = updater(proc[p].upd, EmptyState, proc[p].updAt))

\* A pause that started after the crashed lock had gone stale has succeeded.
C37_Witness ==
  LET r == proc[Solo] IN
  /\ started = 1 /\ r.entry = "pause" /\ r.pc = "jobEnd" /\ r.err = ""
  /\ r.startTime > StartNow
  /\ stateFile.paused # NoPaused /\ ~stateLock.exists

(***************************************************************************)
(* SpecLive: concurrent invocations of the three entry points on job "a".  *)
(* Every process takes its next step, the job's operation returns or       *)
(* throws, and time passes while a process sleeps in acquireStateLock.     *)
(***************************************************************************)
\* The 50 ms sleeps of acquireStateLock's retry loop add up: Date.now()
\* advances while a process is waiting for state.lock.
Elapse ==
  /\ \E p \in Procs : /\ proc[p].pc \in {"asl_write", "asl_stat"}
                      /\ now - proc[p].startTime < LOCK_TIMEOUT_MS
  /\ now' = now + TICK_MS
  /\ UNCHANGED <<registry, agents, lockFile, stateLock, stateFile, proc, serial, started>>

InitLive ==
  InitWith({NoLock, LockRecord(OtherPid, StartNow), LockRecord(DeadPid, StartNow)},
           {EmptyState}, LeftStateLocks)

NextLive ==
  \/ \E p \in Procs : \E scheduled \in BOOLEAN : StartRunJobNow(p, JobA, scheduled)
  \/ \E p \in Procs : StartRunAllDue(p, <<JobA>>)
  \/ \E p \in Procs : StartCheckMissed(p, <<JobA>>)
  \/ \E p \in Procs : LockStep(p) \/ UpdateStep(p) \/ RunStep(p)
  \/ Elapse

SpecLive ==
  /\ InitLive /\ [][NextLive]_vars
  /\ \A p \in Procs : WF_vars(LockStep(p) \/ UpdateStep(p) \/ RunStep(p))
  /\ WF_vars(Elapse)

\* The process is inside acquireLock.
InAcquireLock(p) ==
  proc[p].pc \in {"isLocked_read", "isLocked_stat", "isLocked_unlink", "acquireLock_write"}

\* C38: provided the job's operation terminates, every runJobNow, runAllDue
\* and checkMissed invocation terminates, whatever the other invocations
\* do; and no process is inside acquireLock while it holds the state lock.
C38_Terminates ==
  /\ \A p \in Procs : (proc[p].pc # "idle") ~> (proc[p].pc = "idle")
  /\ [](\A p \in Procs : OwnsStateLock(p) => ~InAcquireLock(p))

\* A process has run the job and given up on the state lock after
\* LOCK_TIMEOUT_MS, while another process is still waiting for it.
C38_Witness ==
  \E p, q \in Procs :
    /\ proc[p].pc \in {"releaseLock", "jobEnd"} /\ proc[p].execs = 1 /\ proc[p].err = "timeout"
    /\ proc[q].pc \in {"asl_write", "asl_stat"}

(***************************************************************************)
(* A failing job inside the loops.                                         *)
(***************************************************************************)
\* The loop of runAllDue or checkMissed is at the end of a job whose
\* operation threw.
ThrewInLoop(r) ==
  r.entry \in {"runAllDue", "checkMissed"} /\ r.pc = "jobEnd" /\ r.op = "threw"

\* The list the loop records a failing job in.
FailList(r) == IF r.entry = "runAllDue" THEN "failed" ELSE "skipped"

\* C39: in runAllDue and checkMissed a job whose operation throws does not
\* stop the loop.  The job is recorded as failed (runAllDue) or skipped
\* (checkMissed) and is not marked, and its lock, if one was taken, is
\* released; the loop then takes the next job, which passes through the
\* same gate as any job, and a later job whose operation succeeds and
\* whose markRun returns is recorded as ran and marked.
C39_ThrowDoesNotStopLoop ==
  /\ [](\A p \in Procs :
          LET r == proc[p]  qid == r.job.qid IN
          /\ ThrewInLoop(r) =>
               /\ r.outcome = "failed" /\ r.err = JobError
               /\ EndsWithJob(r, FailList(r))
               /\ r.marks = 0 /\ stateFile.last[qid] = r.before.last[qid]
               /\ ~r.held /\ qid \notin r.active
               /\ r.acquired => (r.released = 1 /\ ~lockFile[qid].exists)
          /\ (r.entry \in {"runAllDue", "checkMissed"} /\ r.pc = "jobEnd" /\ r.idx > 1
                /\ r.op = "ok" /\ r.err = "") =>
               /\ r.marks = 1 /\ EndsWithJob(r, "ran") /\ stateFile.last[qid] = r.markAt)
  /\ [][\A p \in Procs :
          LET r == proc[p] IN
          (ThrewInLoop(r) /\ Steps(p) /\ r.idx < Len(r.jobs)) =>
            /\ proc'[p] = beginJob(FreshJob([r EXCEPT !.idx = @ + 1,
                                                      !.job = Resolved(r.jobs[r.idx + 1])], now))
            /\ SeqHas(proc'[p].res[FailList(r)], r.job.qid) /\ proc'[p].execs = 0
            /\ UNCHANGED <<lockFile, stateFile>>]_vars

\* checkMissed skipped "a", whose operation threw, and has then run and
\* marked "b"; no lock file is left.
C39_Witness ==
  LET r == proc[Solo] IN
  /\ r.entry = "checkMissed" /\ r.pc = "jobEnd" /\ r.idx = 2
  /\ r.res.skipped = <<"a">> /\ r.res.ran = <<"b">>
  /\ stateFile.last["a"] = NoTime /\ stateFile.last["b"] = r.markAt
  /\ ~stateFile.corrupt /\ ~stateLock.exists /\ stateFile.paused = NoPaused
  /\ ~lockFile["a"].exists /\ ~lockFile["b"].exists

(***************************************************************************)
(* The shape of _paused.                                                   *)
(***************************************************************************)
\* No id twice.
Distinct(s) == \A i, j \in DOMAIN s : s[i] = s[j] => i = j

\* C40: after any sequence of pause and resume calls, _paused is absent,
\* true, or a non-empty list of distinct ids: an empty list is never
\* stored and no id is stored twice; getPauseStatus().all is true exactly
\* when _paused is true, and its jobs are the stored list.
C40_PausedShape ==
  LET ps == stateFile.paused IN
  /\ ps.kind \in {"absent", "all", "list"}
  /\ ps.kind = "list" => (Len(ps.jobs) > 0 /\ Distinct(ps.jobs))
  /\ ps.kind # "list" => ps.jobs = <<>>
  /\ getPauseStatus(stateFile).all <=> ps.kind = "all"
  /\ getPauseStatus(stateFile).jobs = ps.jobs

\* resume("a") has returned where "a" was the only paused id: _paused is
\* absent again.
C40_Witness ==
  LET r == proc[Solo] IN
  /\ r.entry = "resume" /\ r.pc = "jobEnd" /\ r.err = "" /\ r.upd.id = "a"
  /\ r.before.paused = PausedList(<<"a">>)
  /\ stateFile.paused = NoPaused
  /\ getPauseStatus(stateFile) = [all |-> FALSE, jobs |-> <<>>]
====
